---- MODULE Spec2Model ----
(***************************************************************************)
(* AgentMove: the collective-mobility graph (SocialWorld), the per-user    *)
(* Memory cache and the prediction orchestrator (DemoAgent).               *)
(*                                                                         *)
(* Python values are modelled as tagged tuples so that 1 and "1" differ:   *)
(*   PyInt(n) is the integer n, PyStr(n) is the decimal text of n.         *)
(* dicts that preserve insertion order are sequences of records.           *)
(***************************************************************************)
EXTENDS Integers, Sequences, FiniteSets, TLC

VARIABLES
    test_data,      \* DemoAgent.test_data: ordered user -> ordered traj -> trajectory
    ground_data,    \* DemoAgent.ground_data: <<user, traj>> -> ground_stay
    dataset,        \* DemoAgent.dataset / SocialWorld traj_dataset (None for mock data)
    model_name,     \* DemoAgent.model_name
    platform,       \* DemoAgent.platform
    llm_model,      \* DemoAgent.llm_model (None or the client's model/platform)
    social_world,   \* DemoAgent.social_world / the SocialWorld under construction
    memory_units,   \* DemoAgent.memory_units: user -> Memory instance
    mem_serial,     \* number of Memory instances constructed so far (instance identity)
    files,          \* contents of the storage root: file name -> persisted graph
    builds,         \* number of times build_graph ran for the agent's city
    inflight,       \* the predict calls being served at once, each with its position
    last            \* the last operation: its arguments and its outcome

vars == <<test_data, ground_data, dataset, model_name, platform, llm_model,
          social_world, memory_units, mem_serial, files, builds, inflight, last>>

-----------------------------------------------------------------------------
(* Bounds *)

MaxStays == 5       \* most historical stays, over all users, of a dataset that is built
MaxQueryStays == 4  \* most historical stays, over all users, of a dataset that is queried
MaxExclude == 1     \* most venues in the exclude list of a query
MaxPoints == 1      \* most points given to create_custom_trajectory
MaxBuilds == 3      \* cap on the build counter
MaxMem == 3         \* cap on the Memory instance counter
MaxMsgExtra == 1    \* how far a failure message may exceed the explanation limit
MaxHistory == 6     \* most historical stays of the user whose Memory is written
MaxContext == 2     \* most context stays of that user
MaxSegments == 4    \* most segments of a response text
MaxRequests == 2    \* most predict calls in flight at once
MaxInfoStays == 3   \* most historical stays of a dataset asked for get_world_info
MaxMatchWords == 4  \* most words of a text given to match_prediction
MaxLensHistory == 4 \* most historical stays of a Memory built with a chosen memory_lens
MaxProfileStays == 2 \* most historical stays of a Memory whose profile is generated
MaxCacheStays == 1  \* most stays of each list of the user predicted twice
MaxAddr == 2        \* most historical, and most context, addresses given to SpatialWorld

Venues == {1, 2, 3}
UserIds == <<"u1", "u2">>

-----------------------------------------------------------------------------
(* Python values *)

PyInt(n) == <<"int", n>>
PyStr(n) == <<"str", n>>
None == <<"None">>
Unknown == <<"Unknown">>     \* the text "Unknown"

\* Optional attribute: <<>> is None, <<x>> is x
Absent == <<>>
Some(x) == <<x>>

\* str(x) for a venue id
ToStr(x) == IF x[1] = "int" THEN PyStr(x[2]) ELSE x

Range(s) == {s[i] : i \in 1..Len(s)}

RECURSIVE Flatten(_)
Flatten(ss) == IF Len(ss) = 0 THEN <<>> ELSE Head(ss) \o Flatten(Tail(ss))

-----------------------------------------------------------------------------
(* networkx.Graph: nodes in insertion order, one <<u, v, weight>> per       *)
(* unordered pair in the order the pair was first added.                   *)

EmptyGraph == [nodes |-> <<>>, edges |-> <<>>]

AddNode(nodes, n) == IF n \in Range(nodes) THEN nodes ELSE Append(nodes, n)

SameEdge(e, u, v) == (e[1] = u /\ e[2] = v) \/ (e[1] = v /\ e[2] = u)

\* Graph.add_edge(u, v, weight=w): an existing pair keeps its place, its
\* attribute is overwritten
add_edge(G, u, v, w) ==
    [nodes |-> AddNode(AddNode(G.nodes, u), v),
     edges |-> IF \E i \in 1..Len(G.edges) : SameEdge(G.edges[i], u, v)
               THEN [i \in 1..Len(G.edges) |->
                        IF SameEdge(G.edges[i], u, v)
                        THEN <<G.edges[i][1], G.edges[i][2], w>>
                        ELSE G.edges[i]]
               ELSE Append(G.edges, <<u, v, w>>)]

Incident(e, v) == e[1] = v \/ e[2] = v
Other(e, v) == IF e[1] = v THEN e[2] ELSE e[1]

\* Graph.neighbors(v): adjacency of v in insertion order
neighbors(G, v) ==
    LET inc == SelectSeq(G.edges, LAMBDA e : Incident(e, v))
    IN  [i \in 1..Len(inc) |-> Other(inc[i], v)]

EdgeWeight(G, u, v) ==
    LET i == CHOOSE i \in 1..Len(G.edges) : SameEdge(G.edges[i], u, v)
    IN  G.edges[i][3]

\* Graph.edges(data=True): by node order, then adjacency order, each pair once
EdgesView(G) ==
    LET from(i) ==
            LET n == G.nodes[i]
                seen == {G.nodes[j] : j \in 1..(i-1)}
                nb == SelectSeq(neighbors(G, n), LAMBDA m : m \notin seen)
            IN  [k \in 1..Len(nb) |-> <<n, nb[k], EdgeWeight(G, n, nb[k])>>]
    IN  Flatten([i \in 1..Len(G.nodes) |-> from(i)])

-----------------------------------------------------------------------------
(* SocialWorld.build_graph *)

\* zip(venue_ids[:-1], venue_ids[1:])
traj_edges(venue_ids) ==
    [i \in 1..(IF Len(venue_ids) = 0 THEN 0 ELSE Len(venue_ids) - 1) |->
        <<venue_ids[i], venue_ids[i+1]>>]

\* the users that have at least one trajectory, in dict order
WithTraj(traj_dataset) == SelectSeq(traj_dataset, LAMBDA u : Len(u.trajs) > 0)

\* venue ids of the first trajectory's historical_stays_long
FirstVenueIds(u) ==
    LET train_instance == u.trajs[1].historical_stays_long
    IN  [i \in 1..Len(train_instance) |-> train_instance[i].venue]

edges_list(traj_dataset) ==
    LET us == WithTraj(traj_dataset)
    IN  Flatten([i \in 1..Len(us) |-> traj_edges(FirstVenueIds(us[i]))])

nodes_list(traj_dataset) ==
    LET us == WithTraj(traj_dataset)
    IN  Flatten([i \in 1..Len(us) |-> FirstVenueIds(us[i])])

CounterAdd(items, e) ==
    IF \E i \in 1..Len(items) : items[i][1] = e
    THEN [i \in 1..Len(items) |->
            IF items[i][1] = e THEN <<e, items[i][2] + 1>> ELSE items[i]]
    ELSE Append(items, <<e, 1>>)

RECURSIVE CounterUpTo(_, _)
CounterUpTo(seq, n) ==
    IF n = 0 THEN <<>> ELSE CounterAdd(CounterUpTo(seq, n - 1), seq[n])

\* list(Counter(edges).items()): distinct keys in first-occurrence order
edges_weights(edges) == CounterUpTo(edges, Len(edges))

RECURSIVE EdgelistUpTo(_, _)
EdgelistUpTo(ew, n) ==
    IF n = 0 THEN EmptyGraph
    ELSE add_edge(EdgelistUpTo(ew, n - 1), ew[n][1][1], ew[n][1][2], ew[n][2])

\* nx.from_pandas_edgelist(edges_df, "src", "dst", ["weight"])
from_pandas_edgelist(ew) == EdgelistUpTo(ew, Len(ew))

\* build_graph: the graph, or KeyError when a recorded venue is not a node
build_graph(traj_dataset) ==
    LET G == from_pandas_edgelist(edges_weights(edges_list(traj_dataset)))
    IN  IF Range(nodes_list(traj_dataset)) \subseteq Range(G.nodes)
        THEN [ok |-> TRUE, graph |-> G, exc |-> ""]
        ELSE [ok |-> FALSE, graph |-> EmptyGraph, exc |-> "KeyError"]

\* nx.write_gml: node labels are written as quoted text (str(label)), nodes in
\* node order, edges in Graph.edges() order
write_gml(G) ==
    LET ev == EdgesView(G)
    IN  [nodes |-> [i \in 1..Len(G.nodes) |-> ToStr(G.nodes[i])],
         edges |-> [i \in 1..Len(ev) |-> <<ToStr(ev[i][1]), ToStr(ev[i][2]), ev[i][3]>>]]

RECURSIVE ReadEdgesUpTo(_, _, _)
ReadEdgesUpTo(G0, es, n) ==
    IF n = 0 THEN G0
    ELSE add_edge(ReadEdgesUpTo(G0, es, n - 1), es[n][1], es[n][2], es[n][3])

\* nx.read_gml: all nodes are added under their label text, then the edges
read_gml(gml) ==
    ReadEdgesUpTo([nodes |-> gml.nodes, edges |-> <<>>], gml.edges, Len(gml.edges))

-----------------------------------------------------------------------------
(* SocialWorld.retrival_neighbors *)

\* one BFS level: the unseen neighbours of the nodes of thislevel, in
\* discovery order
RECURSIVE Discover(_, _, _, _)
Discover(G, cands, seen, acc) ==
    IF Len(cands) = 0 THEN acc
    ELSE IF Head(cands) \in seen \/ Head(cands) \in Range(acc)
         THEN Discover(G, Tail(cands), seen, acc)
         ELSE Discover(G, Tail(cands), seen, Append(acc, Head(cands)))

NextLevel(G, thislevel, seen) ==
    Discover(G, Flatten([i \in 1..Len(thislevel) |-> neighbors(G, thislevel[i])]),
             seen, <<>>)

\* nx.single_source_shortest_path_length(G, source, cutoff): (node, length)
\* pairs in BFS order, the source first with length 0
RECURSIVE bfs(_, _, _, _, _)
bfs(G, thislevel, seen, level, cutoff) ==
    IF Len(thislevel) = 0 \/ cutoff <= level THEN <<>>
    ELSE LET nl == NextLevel(G, thislevel, seen)
         IN  [i \in 1..Len(nl) |-> <<nl[i], level + 1>>]
             \o bfs(G, nl, seen \cup Range(nl), level + 1, cutoff)

single_source_shortest_path_length(G, source, cutoff) ==
    <<<<source, 0>>>> \o bfs(G, <<source>>, {source}, 0, cutoff)

\* retrival_neighbors without the  n not in context_trajs  test on direct neighbours
retrival_neighbors_unfiltered(G, khop, venue_id, context_trajs) ==
    IF venue_id \notin Range(G.nodes) THEN <<>>
    ELSE IF khop = 1
         THEN LET nb == neighbors(G, venue_id)
              IN  [i \in 1..Len(nb) |-> <<nb[i], 1>>]
         ELSE SelectSeq(single_source_shortest_path_length(G, venue_id, khop),
                        LAMBDA p : 1 <= p[2] /\ p[2] <= khop
                                   /\ p[1] \notin context_trajs)

\* retrival_neighbors(venue_id, context_trajs) of a SocialWorld with the
\* given graph and khop; sorted(key=length) is stable and keeps BFS order
retrival_neighbors(G, khop, venue_id, context_trajs) ==
    IF venue_id \notin Range(G.nodes) THEN <<>>
    ELSE IF khop = 1
         THEN LET nb == SelectSeq(neighbors(G, venue_id),
                                  LAMBDA n : n \notin context_trajs)
              IN  [i \in 1..Len(nb) |-> <<nb[i], 1>>]
         ELSE SelectSeq(single_source_shortest_path_length(G, venue_id, khop),
                        LAMBDA p : 1 <= p[2] /\ p[2] <= khop
                                   /\ p[1] \notin context_trajs)

\* the exception classes of the handler:  except (KeyError, nx.NetworkXError)
Caught == {"KeyError", "NetworkXError"}

\* the traversal of the try body: Graph.neighbors raises NetworkXError and
\* single_source_shortest_path_length raises NodeNotFound (not a
\* NetworkXError) for a source that is not a node
traversal(G, khop, venue_id, context_trajs) ==
    IF venue_id \in Range(G.nodes)
    THEN [exc |-> "", value |-> retrival_neighbors(G, khop, venue_id, context_trajs)]
    ELSE [exc |-> IF khop = 1 THEN "NetworkXError" ELSE "NodeNotFound", value |-> <<>>]

\* the call without its  venue_id not in self.graph.nodes()  test
retrival_neighbors_call_unguarded(G, khop, venue_id, context_trajs) ==
    LET t == traversal(G, khop, venue_id, context_trajs)
    IN  IF t.exc = "" THEN [outcome |-> "returned", exc |-> "", result |-> t.value]
        ELSE IF t.exc \in Caught THEN [outcome |-> "returned", exc |-> "", result |-> <<>>]
        ELSE [outcome |-> "raised", exc |-> t.exc, result |-> <<>>]

\* a call of retrival_neighbors as its caller sees it: the value returned, or
\* the exception that leaves the try statement
retrival_neighbors_call(G, khop, venue_id, context_trajs) ==
    IF venue_id \notin Range(G.nodes)
    THEN [outcome |-> "returned", exc |-> "", result |-> <<>>]
    ELSE LET t == traversal(G, khop, venue_id, context_trajs)
         IN  IF t.exc = "" THEN [outcome |-> "returned", exc |-> "", result |-> t.value]
             ELSE IF t.exc \in Caught
                  THEN [outcome |-> "returned", exc |-> "", result |-> <<>>]
                  ELSE [outcome |-> "raised", exc |-> t.exc, result |-> <<>>]

\* get_world_info: the (neighbor, hop) entries collected before the break;
\* the entry examined when count has reached max_neighbors is still collected
get_world_info(G, khop, max_neighbors, venue_id, context_traj) ==
    LET neighbors_sorted == retrival_neighbors(G, khop, venue_id, context_traj)
        taken == IF Len(neighbors_sorted) <= max_neighbors + 1
                 THEN Len(neighbors_sorted) ELSE max_neighbors + 1
    IN  SubSeq(neighbors_sorted, 1, taken)

-----------------------------------------------------------------------------
(* Storage root and SocialWorld construction *)

PROCESSED_DIR == <<"data/processed/">>
GraphSuffix == <<"_graph.gml">>
CityName == <<"York">>
OtherCityName == <<"New">> \o CityName
DatasetFile == PROCESSED_DIR \o CityName \o <<"_AgentMove_test.json">>

\* Python's  s in t  on text
IsSubstring(s, t) ==
    \E i \in 0..(Len(t) - Len(s)) : SubSeq(t, i + 1, i + Len(s)) = s

save_name(city) == city \o GraphSuffix
graph_file_path(city) == PROCESSED_DIR \o save_name(city)

NoGml == [nodes |-> <<>>, edges |-> <<>>]

\* get_processed_graph: a file of the root whose path contains save_name
\* makes the constructor read graph_file_path, otherwise the graph is built
\* and written.  Result: the graph (if any), the new root, whether
\* build_graph ran.
get_processed_graph(fs, city, traj_dataset) ==
    IF \E file \in DOMAIN fs : IsSubstring(save_name(city), file)
    THEN IF graph_file_path(city) \in DOMAIN fs
         THEN [ok |-> TRUE, graph |-> read_gml(fs[graph_file_path(city)]),
               files |-> fs, built |-> FALSE, exc |-> ""]
         ELSE [ok |-> FALSE, graph |-> EmptyGraph,
               files |-> fs, built |-> FALSE, exc |-> "FileNotFoundError"]
    ELSE LET b == build_graph(traj_dataset)
         IN  IF b.ok
             THEN [ok |-> TRUE, graph |-> b.graph,
                   files |-> [f \in DOMAIN fs \cup {graph_file_path(city)} |->
                                IF f = graph_file_path(city)
                                THEN write_gml(b.graph) ELSE fs[f]],
                   built |-> TRUE, exc |-> ""]
             ELSE [ok |-> FALSE, graph |-> EmptyGraph,
                   files |-> fs, built |-> TRUE, exc |-> b.exc]

\* SocialWorld.__init__
SocialWorld(fs, traj_dataset, city, khop, max_neighbors) ==
    LET r == get_processed_graph(fs, city, traj_dataset)
    IN  [ok |-> r.ok, exc |-> r.exc, files |-> r.files, built |-> r.built,
         world |-> [city_name |-> city, khop |-> khop,
                    max_neighbors |-> max_neighbors, graph |-> r.graph]]

-----------------------------------------------------------------------------
(* The graph engine on its own: a SocialWorld is constructed over a dataset *)
(* and a storage root, then queried.                                       *)

StaySet == {[venue |-> PyInt(v)] : v \in Venues}
HistsOfLen(n) == [1..n -> StaySet]

GraphUser(i, h) ==
    [uid |-> UserIds[i], trajs |-> <<[tid |-> "1", historical_stays_long |-> h]>>]

GraphDatasets(m) ==
    UNION {UNION {{<<GraphUser(1, h1), GraphUser(2, h2)>> :
                        h1 \in HistsOfLen(n1), h2 \in HistsOfLen(n2)} :
                  n2 \in 0..(m - n1)} :
           n1 \in 0..m}

QueryIds == {PyInt(v) : v \in Venues} \cup {PyStr(v) : v \in Venues} \cup {None}
SameType(x) == {y \in QueryIds : y[1] = x[1]}
ExcludeLists(x) == {c \in SUBSET SameType(x) : Cardinality(c) <= MaxExclude}

RootFiles == {[f \in {DatasetFile} |-> NoGml],
              [f \in {DatasetFile, graph_file_path(OtherCityName)} |-> NoGml]}

NoResult == [op |-> "init"]

InitWorld(m) ==
    /\ dataset \in {Some(ds) : ds \in GraphDatasets(m)}
    /\ files \in RootFiles
    /\ social_world = Absent
    /\ builds = 0
    /\ last = NoResult
    /\ test_data = <<>>
    /\ ground_data = <<>>
    /\ model_name = "qwen2.5-7b"
    /\ platform = "SiliconFlow"
    /\ llm_model = Absent
    /\ memory_units = <<>>
    /\ mem_serial = 0
    /\ inflight = <<>>

AgentUnchanged ==
    UNCHANGED <<test_data, ground_data, model_name, platform, llm_model,
                memory_units, mem_serial>>

\* SocialWorld(traj_dataset, PROCESSED_DIR, city, khop, 10)
NewSocialWorld(khop) ==
    LET r == SocialWorld(files, dataset[1], CityName, khop, 10)
    IN  /\ r.built => builds < MaxBuilds
        /\ social_world' = IF r.ok THEN Some(r.world) ELSE social_world
        /\ files' = r.files
        /\ builds' = IF r.built THEN builds + 1 ELSE builds
        /\ last' = [op |-> "SocialWorld", ok |-> r.ok, exc |-> r.exc,
                    built |-> r.built, khop |-> khop, root |-> DOMAIN files]
        /\ UNCHANGED <<dataset, inflight>>
        /\ AgentUnchanged

\* social_world.retrival_neighbors(venue_id, context_trajs)
RetrivalNeighbors(venue_id, context_trajs) ==
    /\ social_world # Absent
    /\ LET r == retrival_neighbors_call(social_world[1].graph, social_world[1].khop,
                                        venue_id, context_trajs)
       IN  last' = [op |-> "retrival_neighbors", venue_id |-> venue_id,
                    context_trajs |-> context_trajs,
                    outcome |-> r.outcome, exc |-> r.exc, result |-> r.result]
    /\ UNCHANGED <<dataset, inflight, files, social_world, builds>>
    /\ AgentUnchanged

\* the prompts of get_world_info: neighbors_info maps a hop distance to its
\* infos, keys in insertion order; one line per key with the number of infos
info_lines(collected) ==
    CounterUpTo([i \in 1..Len(collected) |-> collected[i][2]], Len(collected))

\* max_neighbors=10 in DemoAgent.predict
MaxNeighbors == 10

\* the caps a SocialWorld is given: a small one, and the one predict passes
Caps == {1, MaxNeighbors}

\* SocialWorld(traj_dataset, PROCESSED_DIR, city, khop, max_neighbors)
NewCappedWorld(khop, max_neighbors) ==
    LET r == SocialWorld(files, dataset[1], CityName, khop, max_neighbors)
    IN  /\ r.built => builds < MaxBuilds
        /\ social_world' = IF r.ok THEN Some(r.world) ELSE social_world
        /\ files' = r.files
        /\ builds' = IF r.built THEN builds + 1 ELSE builds
        /\ last' = [op |-> "SocialWorld", ok |-> r.ok, exc |-> r.exc,
                    built |-> r.built, khop |-> khop, root |-> DOMAIN files]
        /\ UNCHANGED <<dataset, inflight>>
        /\ AgentUnchanged

\* social_world.get_world_info(venue_id, context_traj, "address")
GetWorldInfo(venue_id, context_traj) ==
    /\ social_world # Absent
    /\ LET w == social_world[1]
           collected == get_world_info(w.graph, w.khop, w.max_neighbors,
                                       venue_id, context_traj)
       IN  last' = [op |-> "get_world_info", venue_id |-> venue_id,
                    context_traj |-> context_traj,
                    retrieved |-> retrival_neighbors(w.graph, w.khop, venue_id, context_traj),
                    collected |-> collected,
                    lines |-> info_lines(collected)]
    /\ UNCHANGED <<dataset, inflight, files, social_world, builds>>
    /\ AgentUnchanged

\* construction only: the graph is built or loaded
InitGraph == InitWorld(MaxStays)

NextGraph == \E khop \in {1, 2} : NewSocialWorld(khop)

SpecGraph == InitGraph /\ [][NextGraph]_vars

\* construction and queries
InitQuery == InitWorld(MaxQueryStays)

NextQuery ==
    \/ \E khop \in {1, 2} : NewSocialWorld(khop)
    \/ \E venue_id \in QueryIds : \E context_trajs \in ExcludeLists(venue_id) :
            RetrivalNeighbors(venue_id, context_trajs)

SpecQuery == InitQuery /\ [][NextQuery]_vars

\* construction with a cap, and get_world_info
InitInfo == InitWorld(MaxInfoStays)

NextInfo ==
    \/ \E khop \in {1, 2} : \E max_neighbors \in Caps : NewCappedWorld(khop, max_neighbors)
    \/ \E venue_id \in QueryIds : \E context_traj \in ExcludeLists(venue_id) :
            GetWorldInfo(venue_id, context_traj)

SpecInfo == InitInfo /\ [][NextInfo]_vars

-----------------------------------------------------------------------------
(* DemoAgent: data *)

\* a stay [hour, weekday, category, venue_id, admin, subdistrict, poi, street];
\* the four address fields are always present and are not modelled
Stay(h, d, c, v) == [hour |-> h, day |-> d, cat |-> c, venue |-> PyInt(v)]

MockHistory ==
    <<Stay(8, "Monday", "Residence", 1), Stay(9, "Monday", "Office", 2),
      Stay(18, "Monday", "Residence", 1), Stay(8, "Tuesday", "Residence", 1),
      Stay(9, "Tuesday", "Office", 2), Stay(12, "Tuesday", "Restaurant", 4)>>

\* _create_mock_data
MockTestData ==
    <<[uid |-> "demo_user_1",
       trajs |-> <<[tid |-> "1",
                    context_stays |-> <<Stay(8, "Wednesday", "Residence", 1),
                                        Stay(9, "Wednesday", "Office", 2),
                                        Stay(12, "Wednesday", "Restaurant", 3)>>,
                    historical_stays_long |-> MockHistory]>>]>>

MockGroundData == <<[uid |-> "demo_user_1", tid |-> "1", ground_stay |-> PyInt(2)]>>

\* a dataset as Dataset.get_generated_datasets() returns it: one user, one
\* trajectory whose history visits 1, 2, 3, 1 and whose context is 2, 3
LoadedTestData ==
    <<[uid |-> "u1",
       trajs |-> <<[tid |-> "1",
                    context_stays |-> <<Stay(9, "Monday", "Office", 2),
                                        Stay(12, "Monday", "Restaurant", 3)>>,
                    historical_stays_long |->
                        <<Stay(8, "Monday", "Residence", 1), Stay(9, "Monday", "Office", 2),
                          Stay(12, "Monday", "Restaurant", 3),
                          Stay(18, "Monday", "Residence", 1)>>]>>]>>

LoadedGroundData == <<[uid |-> "u1", tid |-> "1", ground_stay |-> PyInt(1)]>>

\* the (model_name, platform) pairs LLMAPI accepts that the requests use
Configs == {<<"qwen2.5-7b", "SiliconFlow">>, <<"llama3-8b", "DeepInfra">>}

ExplainLimit == 100     \* str(e)[:100]
MemoryLens == 15        \* memory_lens=15
UnboundMsgLen == 81     \* length of the UnboundLocalError message for 'prediction'
TopK == 5               \* k = 5
HexIdLen == 24          \* [0-9a-f]{24}

\* ordered dict helpers
HasUser(td, u) == \E i \in 1..Len(td) : td[i].uid = u
UserTrajs(td, u) == td[CHOOSE i \in 1..Len(td) : td[i].uid = u].trajs
HasTraj(trajs, t) == \E i \in 1..Len(trajs) : trajs[i].tid = t
TrajOf(trajs, t) == trajs[CHOOSE i \in 1..Len(trajs) : trajs[i].tid = t]

\* ground_truth.get("ground_stay", "Unknown")
GroundStayOr(gd, u, t, default) ==
    IF \E i \in 1..Len(gd) : gd[i].uid = u /\ gd[i].tid = t
    THEN gd[CHOOSE i \in 1..Len(gd) : gd[i].uid = u /\ gd[i].tid = t].ground_stay
    ELSE default

HasMemory(mu, u) == \E i \in 1..Len(mu) : mu[i].uid = u
MemoryOf(mu, u) == mu[CHOOSE i \in 1..Len(mu) : mu[i].uid = u].mem

-----------------------------------------------------------------------------
(* Memory *)

\* lst[-n:]  (the whole list when n = 0)
LastN(lst, n) == IF n = 0 THEN lst ELSE SubSeq(lst, Len(lst) - n + 1, Len(lst))

\* a constructor that hands write_memory the whole of know_stays
Memory_untrimmed(know_stays, context_stays, memory_lens) ==
    [known_stays |-> know_stays,
     context_stays |-> context_stays,
     memory_lens |-> memory_lens]

\* Memory(know_stays, context_stays, memory_lens): what write_memory is given
Memory(know_stays, context_stays, memory_lens) ==
    LET input_lens == IF Len(know_stays) <= memory_lens THEN Len(know_stays) ELSE memory_lens
    IN  [known_stays |-> LastN(know_stays, input_lens),
         context_stays |-> context_stays,
         memory_lens |-> memory_lens]

\* read_memory: short_term_memory_readout reads last_visit['day'] (KeyError
\* when no context stay was written), user_profile_generation takes max() of
\* the top hours (ValueError when no historical stay was written)
read_memory(mem) ==
    IF Len(mem.context_stays) = 0 THEN [ok |-> FALSE, exc |-> "KeyError"]
    ELSE IF Len(mem.known_stays) = 0 THEN [ok |-> FALSE, exc |-> "ValueError"]
    ELSE [ok |-> TRUE, exc |-> ""]

\* insertion of one (value, count) pair below every pair whose count is not
\* smaller: a descending sort that keeps the order of equal counts
InsertDesc(sorted, item) ==
    LET k == Cardinality({i \in 1..Len(sorted) : sorted[i][2] >= item[2]})
    IN  SubSeq(sorted, 1, k) \o <<item>> \o SubSeq(sorted, k + 1, Len(sorted))

RECURSIVE SortDescUpTo(_, _)
SortDescUpTo(items, n) ==
    IF n = 0 THEN <<>> ELSE InsertDesc(SortDescUpTo(items, n - 1), items[n])

\* Series.value_counts().sort_values(ascending=False): (value, count) pairs
value_counts(vals) ==
    LET counted == CounterUpTo(vals, Len(vals))
    IN  SortDescUpTo(counted, Len(counted))

\* head(k) that keeps the first row only
head_one(rows, k) == SubSeq(rows, 1, IF Len(rows) <= 1 THEN Len(rows) ELSE 1)

\* head(k)
head(rows, k) == SubSeq(rows, 1, IF Len(rows) <= k THEN Len(rows) ELSE k)

\* write_memory, long-term part: the top k hours and venue categories
long_term_memory(known_stays) ==
    [top_k_frequent_hours |->
        head(value_counts([i \in 1..Len(known_stays) |-> known_stays[i].hour]), TopK),
     top_k_frequent_venues |->
        head(value_counts([i \in 1..Len(known_stays) |-> known_stays[i].cat]), TopK)]

\* a turn of the loop that writes last_visit only while it is still empty
short_term_step_keep(stm, entry) ==
    [last_visit |-> IF stm.last_visit # Absent THEN stm.last_visit
                    ELSE Some([time |-> entry.hour, day |-> entry.day,
                               location |-> entry.cat, venue_id |-> entry.venue]),
     frequent_locations |-> CounterAdd(stm.frequent_locations, entry.cat)]

\* one turn of the loop over context_stays_slim
short_term_step(stm, entry) ==
    [last_visit |-> Some([time |-> entry.hour, day |-> entry.day,
                          location |-> entry.cat, venue_id |-> entry.venue]),
     frequent_locations |-> CounterAdd(stm.frequent_locations, entry.cat)]

\* write_memory, short-term part: last_visit starts as {} and every entry of
\* context_stays_slim overwrites it in turn
RECURSIVE short_term_memory(_)
short_term_memory(context_stays) ==
    IF Len(context_stays) = 0
    THEN [last_visit |-> Absent, frequent_locations |-> <<>>]
    ELSE LET n == Len(context_stays)
         IN  short_term_step(short_term_memory(SubSeq(context_stays, 1, n - 1)),
                             context_stays[n])

\* long_term_memory_readout: the "hour (count times)" items it joins
long_term_memory_readout(long_mem) == long_mem.top_k_frequent_hours

\* the dict read_memory returns: the hours cited by historical_info and the
\* last visit cited by context_info
memory_info(mem) ==
    [historical_info |-> long_term_memory_readout(long_term_memory(mem.known_stays)),
     context_info |-> short_term_memory(mem.context_stays).last_visit]

\* Memory.EVENING_HOURS ... Memory.FOOD_VENUES; hours are strings here
EVENING_HOURS == {<<"str", "5 PM">>, <<"str", "6 PM">>, <<"str", "8 PM">>}
REGULAR_HOURS == {<<"str", "8 AM">>, <<"str", "9 AM">>, <<"str", "5 PM">>, <<"str", "6 PM">>}
NIGHTLIFE_HOURS ==
    {<<"str", "10 PM">>, <<"str", "11 PM">>, <<"str", "12 AM">>, <<"str", "1 AM">>,
     <<"str", "2 AM">>}
COMMUTER_VENUES == {"Bus Station", "Train Station"}
LEISURE_VENUES == {"Beach", "Park", "Cafe", "Food & Drink Shop", "Restaurant"}
SHOPPING_VENUES == {"Department Store", "Clothing Store", "Cosmetics Shop"}
HEALTH_VENUES == {"Gym / Fitness Center"}
FOOD_VENUES == {"Burger Joint", "Thai Restaurant", "Coffee Shop", "Food & Drink Shop"}

\* max(rows, key=lambda x: x['Count']): the first row of the largest count
max_by_count(rows) ==
    rows[CHOOSE i \in 1..Len(rows) :
            /\ \A j \in 1..Len(rows) : rows[j][2] <= rows[i][2]
            /\ \A j \in 1..(i - 1) : rows[j][2] < rows[i][2]]

\* a set of hours in which an integer hour is written as a clock label
hours_set_labelled(top_k_frequent_hours) ==
    {IF top_k_frequent_hours[i][1][1] # "int" THEN top_k_frequent_hours[i][1]
     ELSE <<"str", CASE top_k_frequent_hours[i][1][2] = 17 -> "5 PM"
                     [] top_k_frequent_hours[i][1][2] = 22 -> "10 PM"
                     [] top_k_frequent_hours[i][1][2] = 9 -> "9 AM"
                     [] OTHER -> "3 PM">> : i \in 1..Len(top_k_frequent_hours)}

\* hours_set = {item['Hour'] for item in top_k_frequent_hours}
hours_set(top_k_frequent_hours) ==
    {top_k_frequent_hours[i][1] : i \in 1..Len(top_k_frequent_hours)}

\* venues_set = {item['Venue_Category_Name'] for item in top_k_frequent_venues}
venues_set(top_k_frequent_venues) ==
    {top_k_frequent_venues[i][1] : i \in 1..Len(top_k_frequent_venues)}

If(cond, phrase) == IF cond THEN <<phrase>> ELSE <<>>

\* a chain in which only the first cluster that intersects is reported
insights_first_only(hours, venues) ==
    IF hours \cap EVENING_HOURS # {} THEN <<"enjoys evening activities">>
    ELSE IF hours \cap REGULAR_HOURS # {} THEN <<"maintains a regular lifestyle">>
    ELSE IF hours \cap NIGHTLIFE_HOURS # {} THEN <<"enjoys nightlife">>
    ELSE IF venues \cap COMMUTER_VENUES # {} THEN <<"has a fixed commute">>
    ELSE IF venues \cap LEISURE_VENUES # {} THEN <<"enjoys leisure activities">>
    ELSE IF venues \cap SHOPPING_VENUES # {}
    THEN <<"frequently shops for clothes and cosmetics">>
    ELSE IF venues \cap HEALTH_VENUES # {}
    THEN <<"is health conscious and regularly visits the gym">>
    ELSE IF venues \cap FOOD_VENUES # {}
    THEN <<"enjoys trying different types of food and drinks">>
    ELSE <<>>

\* the insights list after the eight  if  statements
insights_of(hours, venues) ==
    If(hours \cap EVENING_HOURS # {}, "enjoys evening activities")
    \o If(hours \cap REGULAR_HOURS # {}, "maintains a regular lifestyle")
    \o If(hours \cap NIGHTLIFE_HOURS # {}, "enjoys nightlife")
    \o If(venues \cap COMMUTER_VENUES # {}, "has a fixed commute")
    \o If(venues \cap LEISURE_VENUES # {}, "enjoys leisure activities")
    \o If(venues \cap SHOPPING_VENUES # {}, "frequently shops for clothes and cosmetics")
    \o If(venues \cap HEALTH_VENUES # {}, "is health conscious and regularly visits the gym")
    \o If(venues \cap FOOD_VENUES # {}, "enjoys trying different types of food and drinks")

\* user_profile_generation(long_mem): max() of an empty list is a ValueError;
\* phrases are the insights that ", ".join() puts into the profile
user_profile_generation(long_mem) ==
    IF Len(long_mem.top_k_frequent_hours) = 0 \/ Len(long_mem.top_k_frequent_venues) = 0
    THEN [outcome |-> "raised", exc |-> "ValueError"]
    ELSE LET insights == insights_of(hours_set(long_mem.top_k_frequent_hours),
                                     venues_set(long_mem.top_k_frequent_venues))
         IN  [outcome |-> "returned", exc |-> "",
              most_frequent_hour |-> max_by_count(long_mem.top_k_frequent_hours),
              most_frequent_venue |-> max_by_count(long_mem.top_k_frequent_venues),
              phrases |-> IF insights # <<>> THEN insights ELSE <<"has diverse interests">>]

\* the cache lookup without its  not in  test: the entry of a cached user is
\* overwritten by the fresh instance
memory_units_rebuilt(mu, user_id, fresh) ==
    IF HasMemory(mu, user_id)
    THEN [i \in 1..Len(mu) |-> IF mu[i].uid = user_id
                                THEN [uid |-> user_id, mem |-> fresh] ELSE mu[i]]
    ELSE Append(mu, [uid |-> user_id, mem |-> fresh])

\* if user_id not in self.memory_units: self.memory_units[user_id] = Memory(...)
memory_units_after(mu, user_id, fresh) ==
    IF ~HasMemory(mu, user_id)
    THEN Append(mu, [uid |-> user_id, mem |-> fresh])
    ELSE mu

-----------------------------------------------------------------------------
(* The reasoning capability and the response parser, by response class *)

\* what get_response may do on one call: raise once the retry budget is
\* spent, or answer
CallOutcomes == {"ok", "raise"}

\* classes of answers to the final prompt:
\*   "none"   no text (content None)
\*   "object" text holding a JSON object with a non-empty prediction
\*   "array"  text that is valid JSON but not an object, such as [1, 2]
Responses == {"none", "object", "array"}

\* a text is modelled by its length; a failure message may be empty, exactly
\* at the limit of the explanation, or longer
MsgLens == {0, ExplainLimit, ExplainLimit + MaxMsgExtra}

EmptyText == <<"text", 0>>

\* extract_json(pre_text, "prediction") on a response class: the non-text
\* answer returns blanks, the object returns its prediction and reason, the
\* non-object raises from the  except Exception  handler, which reads the
\* unassigned local  prediction
extract_json(resp) ==
    IF resp = "none"
    THEN [ok |-> TRUE, prediction |-> EmptyText, reason |-> EmptyText, msg_len |-> 0]
    ELSE IF resp = "object"
    THEN [ok |-> TRUE, prediction |-> <<"answer", "prediction">>,
          reason |-> <<"answer", "reason">>, msg_len |-> 0]
    ELSE [ok |-> FALSE, prediction |-> None, reason |-> None, msg_len |-> UnboundMsgLen]

\* text[:n] that keeps the whole text
TruncateNothing(len, n) == len

\* text[:n]
Truncate(len, n) == IF len <= n THEN len ELSE n

\* f"Prediction failed due to: {str(e)[:100]}"
FailedReason(msg_len) == <<"Prediction failed due to: ", Truncate(msg_len, ExplainLimit)>>

-----------------------------------------------------------------------------
(* DemoAgent: operations *)

\* what the reasoning capability does on the three calls of one predict (the
\* two spatial queries, then the final prompt), the class of its final answer
\* and the length of its final failure message
Scripts ==
    {[calls |-> <<"raise", "raise", "raise">>, resp |-> "none", msg_len |-> 0],
     [calls |-> <<"ok", "raise", "raise">>, resp |-> "none", msg_len |-> 0]}
    \cup {[calls |-> <<"ok", "ok", "raise">>, resp |-> "none", msg_len |-> l] : l \in MsgLens}
    \cup {[calls |-> <<"ok", "ok", "ok">>, resp |-> r, msg_len |-> 0] : r \in Responses}

NothingConstructed == [llm_model |-> FALSE, social_world |-> FALSE]

\* the record kept of a predict call
PredictRecord(city_name, user_req, traj_req, user_id, traj_id, outcome, exc, calls, venue_id, explanation, ground_stay, social_info, msg_len, final_exc, did) ==
    [op |-> "predict", city_name |-> city_name, user_req |-> user_req,
     traj_req |-> traj_req, user_id |-> user_id, traj_id |-> traj_id,
     outcome |-> outcome, exc |-> exc, calls |-> calls, venue_id |-> venue_id,
     explanation |-> explanation, ground_stay |-> ground_stay,
     social_info |-> social_info, msg_len |-> msg_len, final_exc |-> final_exc,
     did |-> did]

\* DemoAgent.predict(city_name, user_id, traj_id)
predict(city_name, user_req, traj_req, script) ==
    LET user_known == user_req # Absent /\ HasUser(test_data, user_req[1])
        user_id == IF user_known THEN user_req[1] ELSE test_data[1].uid
        trajs == UserTrajs(test_data, user_id)
        traj_known == traj_req # Absent /\ HasTraj(trajs, traj_req[1])
        traj_id == IF traj_known THEN traj_req[1] ELSE trajs[1].tid
        traj_data == TrajOf(trajs, traj_id)
        ground_stay == GroundStayOr(ground_data, user_id, traj_id, Unknown)
        \* if self.llm_model is None
        llm1 == IF llm_model = Absent THEN Some(<<model_name, platform>>) ELSE llm_model
        \* if self.social_world is None and self.dataset is not None
        sw_try == social_world = Absent /\ dataset # Absent
        sw == SocialWorld(files, dataset[1], CityName, 1, MaxNeighbors)
        social1 == IF sw_try /\ sw.ok THEN Some(sw.world) ELSE social_world
        files1 == IF sw_try THEN sw.files ELSE files
        builds1 == IF sw_try /\ sw.built THEN builds + 1 ELSE builds
        \* SpatialWorld(...): build_inner_world_model issues two queries
        spatial_calls == IF script.calls[1] = "raise" THEN <<"raise">>
                         ELSE <<"ok", script.calls[2]>>
        spatial_ok == script.calls[1] = "ok" /\ script.calls[2] = "ok"
        \* if user_id not in self.memory_units
        need_mem == ~HasMemory(memory_units, user_id)
        know_stays == trajs[1].historical_stays_long
        mem_new == [id |-> mem_serial + 1,
                    m |-> Memory(know_stays, traj_data.context_stays, MemoryLens)]
        mu1 == memory_units_after(memory_units, user_id, mem_new)
        serial1 == IF need_mem THEN mem_serial + 1 ELSE mem_serial
        rd == read_memory(MemoryOf(mu1, user_id).m)
        \* social info
        ctx == traj_data.context_stays
        last_venue_id == IF Len(ctx) > 0 THEN ctx[Len(ctx)].venue ELSE None
        history_points == {ctx[i].venue : i \in 1..Len(ctx)}
        social_info == IF social1 # Absent
                       THEN Some(get_world_info(social1[1].graph, social1[1].khop,
                                                social1[1].max_neighbors,
                                                last_venue_id, history_points))
                       ELSE Absent
        \* try: get_response + extract_json  except: ground truth
        ej == extract_json(script.resp)
        final_ok == script.calls[3] = "ok" /\ ej.ok
        fail_len == IF script.calls[3] = "ok" THEN ej.msg_len ELSE script.msg_len
        prediction == IF final_ok THEN ej.prediction ELSE ground_stay
        reason == IF final_ok THEN ej.reason ELSE FailedReason(fail_len)
        final_exc == IF script.calls[3] = "raise" THEN "RetryError"
                     ELSE IF ~ej.ok THEN "UnboundLocalError" ELSE ""
        \* what the call constructed: the client, the SocialWorld
        constructed == [llm_model |-> llm_model = Absent, social_world |-> sw_try]
        Rec(uid, tid, outcome, exc, calls, venue_id, explanation, gs, si, ml, fe) ==
            PredictRecord(city_name, user_req, traj_req, uid, tid, outcome, exc, calls,
                          venue_id, explanation, gs, si, ml, fe,
                          IF calls = <<>> THEN NothingConstructed ELSE constructed)
    IN  IF ~user_known /\ Len(test_data) = 0
        THEN \* raise ValueError("No trajectory data available")
             /\ last' = Rec("", "", "raised", "ValueError", <<>>, None, None, None, Absent, 0, "")
             /\ UNCHANGED <<test_data, ground_data, dataset, inflight, model_name, platform, llm_model,
                            social_world, memory_units, mem_serial, files, builds>>
        ELSE IF ~traj_known /\ Len(trajs) = 0
        THEN \* raise ValueError("No trajectories found for user ...")
             /\ last' = Rec(user_id, "", "raised", "ValueError", <<>>, None, None, None, Absent, 0, "")
             /\ UNCHANGED <<test_data, ground_data, dataset, inflight, model_name, platform, llm_model,
                            social_world, memory_units, mem_serial, files, builds>>
        ELSE /\ (sw_try /\ sw.built) => builds < MaxBuilds
             /\ llm_model' = llm1
             /\ social_world' = social1
             /\ files' = files1
             /\ builds' = builds1
             /\ UNCHANGED <<test_data, ground_data, dataset, inflight, model_name, platform>>
             /\ IF ~spatial_ok
                THEN \* the SpatialWorld constructor raises
                     /\ last' = Rec(user_id, traj_id, "raised", "RetryError", spatial_calls,
                                    None, None, ground_stay, Absent, 0, "")
                     /\ UNCHANGED <<memory_units, mem_serial>>
                ELSE /\ need_mem => mem_serial < MaxMem
                     /\ memory_units' = mu1
                     /\ mem_serial' = serial1
                     /\ IF ~rd.ok
                        THEN \* read_memory raises
                             last' = Rec(user_id, traj_id, "raised", rd.exc, <<"ok", "ok">>,
                                         None, None, ground_stay, Absent, 0, "")
                        ELSE last' = Rec(user_id, traj_id, "returned", "",
                                         <<"ok", "ok", script.calls[3]>>,
                                         prediction, reason, ground_stay, social_info,
                                         IF final_ok THEN 0 ELSE fail_len, final_exc)

\* update_model that takes the new names and keeps the client
update_model_keep_client(m, pf) ==
    /\ IF m # model_name \/ pf # platform
       THEN /\ model_name' = m
            /\ platform' = pf
            /\ UNCHANGED llm_model
       ELSE UNCHANGED <<model_name, platform, llm_model>>
    /\ last' = [op |-> "update_model", outcome |-> "returned",
                model_name |-> m, platform |-> pf]
    /\ UNCHANGED <<test_data, ground_data, dataset, inflight, social_world, memory_units,
                   mem_serial, files, builds>>

\* DemoAgent.update_model(model_name, platform)
update_model(m, pf) ==
    /\ IF m # model_name \/ pf # platform
       THEN /\ model_name' = m
            /\ platform' = pf
            /\ llm_model' = Absent
       ELSE UNCHANGED <<model_name, platform, llm_model>>
    /\ last' = [op |-> "update_model", outcome |-> "returned",
                model_name |-> m, platform |-> pf]
    /\ UNCHANGED <<test_data, ground_data, dataset, inflight, social_world, memory_units,
                   mem_serial, files, builds>>

\* a trajectory point given to create_custom_trajectory
PointSet == {[hour |-> 9, day |-> "Monday", category |-> Some("Office"), venue_id |-> Some(2)]}

TrajectoryPoints == UNION {[1..n -> PointSet] : n \in 0..MaxPoints}

\* [hour, weekday, category, venue_id] + address_parts of one point
PointStay(point) ==
    Stay(point.hour, point.day,
         IF point.category = Absent THEN "Unknown" ELSE point.category[1],
         IF point.venue_id = Absent THEN 0 ELSE point.venue_id[1])

\* d[key] = value on an ordered dict: an existing key keeps its place
PutTraj(trajs, traj) ==
    IF HasTraj(trajs, traj.tid)
    THEN [i \in 1..Len(trajs) |-> IF trajs[i].tid = traj.tid THEN traj ELSE trajs[i]]
    ELSE Append(trajs, traj)

PutGround(gd, g) ==
    IF \E i \in 1..Len(gd) : gd[i].uid = g.uid /\ gd[i].tid = g.tid
    THEN [i \in 1..Len(gd) |-> IF gd[i].uid = g.uid /\ gd[i].tid = g.tid THEN g ELSE gd[i]]
    ELSE Append(gd, g)

\* DemoAgent.create_custom_trajectory(user_id, trajectory_points)
create_custom_trajectory(user_id, trajectory_points) ==
    IF Len(trajectory_points) < 1
    THEN \* raise ValueError("Trajectory must contain at least one point")
         /\ last' = [op |-> "create_custom_trajectory", outcome |-> "raised"]
         /\ UNCHANGED <<test_data, ground_data, dataset, inflight, model_name, platform, llm_model,
                        social_world, memory_units, mem_serial, files, builds>>
    ELSE LET context_stays == [i \in 1..Len(trajectory_points) |->
                                    PointStay(trajectory_points[i])]
             shorter == IF Len(context_stays) > 1
                        THEN SubSeq(context_stays, 1, Len(context_stays) - 1) ELSE <<>>
             traj_data == [tid |-> "custom_1", context_stays |-> context_stays,
                           historical_stays_long |-> shorter]
             td1 == IF HasUser(test_data, user_id) THEN test_data
                    ELSE Append(test_data, [uid |-> user_id, trajs |-> <<>>])
         IN  /\ test_data' = [i \in 1..Len(td1) |->
                                IF td1[i].uid = user_id
                                THEN [td1[i] EXCEPT !.trajs = PutTraj(@, traj_data)]
                                ELSE td1[i]]
             /\ ground_data' = PutGround(ground_data,
                                  [uid |-> user_id, tid |-> "custom_1", ground_stay |-> None])
             /\ last' = [op |-> "create_custom_trajectory", outcome |-> "returned"]
             /\ UNCHANGED <<dataset, inflight, model_name, platform, llm_model, social_world,
                            memory_units, mem_serial, files, builds>>

-----------------------------------------------------------------------------
(* DemoAgent: specification *)

\* DemoAgent.__init__: the dataset was loaded, or the mock data stands in
Init ==
    /\ \/ /\ dataset = Absent
          /\ test_data = MockTestData
          /\ ground_data = MockGroundData
          /\ files = [f \in {DatasetFile} |-> NoGml]
       \/ /\ dataset = Some(LoadedTestData)
          /\ test_data = LoadedTestData
          /\ ground_data = LoadedGroundData
          /\ files \in RootFiles
    /\ model_name = "qwen2.5-7b"
    /\ platform = "SiliconFlow"
    /\ llm_model = Absent
    /\ social_world = Absent
    /\ memory_units = <<>>
    /\ mem_serial = 0
    /\ inflight = <<>>
    /\ builds = 0
    /\ last = NoResult

\* the requests: each pair of a user (the first loaded one, or one that exists
\* only once a custom trajectory was created for it) and a trajectory id,
\* the request without identifiers, and a request for another city
ReqUsers == {Some(test_data[1].uid), Some("new_user")}
ReqTrajs == {Some("1"), Some("custom_1")}
Requests ==
    {<<CityName, u, t>> : u \in ReqUsers, t \in ReqTrajs}
    \cup {<<CityName, Absent, Absent>>,
          <<OtherCityName, Some(test_data[1].uid), Some("1")>>}

Next ==
    \/ \E r \in Requests : \E script \in Scripts : predict(r[1], r[2], r[3], script)
    \/ \E c \in Configs : update_model(c[1], c[2])
    \/ \E u \in {test_data[1].uid, "new_user"} : \E pts \in TrajectoryPoints :
            create_custom_trajectory(u, pts)

Spec == Init /\ [][Next]_vars

-----------------------------------------------------------------------------
(* Memory on its own: one user whose stays are drawn from small pools *)

HistoryPool ==
    {Stay(9, "Monday", "Office", 2), Stay(18, "Monday", "Residence", 1),
     Stay(7, "Tuesday", "Gym", 3), Stay(12, "Tuesday", "Restaurant", 4)}

\* context stays that are not in time order when the first follows the second
ContextPool == {Stay(18, "Tuesday", "Residence", 1), Stay(9, "Monday", "Office", 2)}

ListsOf(pool, m) == UNION {[1..n -> pool] : n \in 0..m}

InitMemory ==
    /\ \E ks \in ListsOf(HistoryPool, MaxHistory) : \E cs \in ListsOf(ContextPool, MaxContext) :
            test_data = <<[uid |-> "u1",
                           trajs |-> <<[tid |-> "1", context_stays |-> cs,
                                        historical_stays_long |-> ks]>>]>>
    /\ ground_data = <<>>
    /\ dataset = Absent
    /\ files = [f \in {DatasetFile} |-> NoGml]
    /\ model_name = "qwen2.5-7b"
    /\ platform = "SiliconFlow"
    /\ llm_model = Absent
    /\ social_world = Absent
    /\ memory_units = <<>>
    /\ mem_serial = 0
    /\ inflight = <<>>
    /\ builds = 0
    /\ last = NoResult

\* Memory(know_stays, context_stays, memory_lens=15) for the user, as predict
\* constructs it; the constructor ends with write_memory
NewMemory ==
    LET traj == test_data[1].trajs[1]
        mem == Memory(traj.historical_stays_long, traj.context_stays, MemoryLens)
    IN  /\ ~HasMemory(memory_units, "u1")
        /\ memory_units' = memory_units_after(memory_units, "u1",
                                               [id |-> mem_serial + 1, m |-> mem])
        /\ mem_serial' = mem_serial + 1
        /\ last' = [op |-> "Memory",
                    long_term_memory |-> long_term_memory(mem.known_stays),
                    short_term_memory |-> short_term_memory(mem.context_stays)]
        /\ UNCHANGED <<test_data, ground_data, dataset, inflight, model_name, platform, llm_model,
                       social_world, files, builds>>

\* memory_units[user_id].read_memory(user_id, None)
ReadMemory ==
    /\ HasMemory(memory_units, "u1")
    /\ LET mem == MemoryOf(memory_units, "u1").m
           rd == read_memory(mem)
       IN  last' = IF rd.ok
                   THEN [op |-> "read_memory", outcome |-> "returned", exc |-> "",
                         info |-> memory_info(mem)]
                   ELSE [op |-> "read_memory", outcome |-> "raised", exc |-> rd.exc]
    /\ UNCHANGED <<test_data, ground_data, dataset, inflight, model_name, platform, llm_model,
                   social_world, memory_units, mem_serial, files, builds>>

NextMemory == NewMemory \/ ReadMemory

SpecMemory == InitMemory /\ [][NextMemory]_vars

-----------------------------------------------------------------------------
(* predict for one user who has two trajectories, either of which may have  *)
(* an empty context; the historical stays are those of the first.           *)

InitCache ==
    /\ \E ks \in ListsOf(HistoryPool, MaxCacheStays) :
       \E c1 \in ListsOf(ContextPool, MaxCacheStays) :
       \E c2 \in ListsOf(ContextPool, MaxCacheStays) :
            test_data = <<[uid |-> "u1",
                           trajs |-> <<[tid |-> "1", context_stays |-> c1,
                                        historical_stays_long |-> ks],
                                       [tid |-> "2", context_stays |-> c2,
                                        historical_stays_long |-> ks]>>]>>
    /\ ground_data = <<>>
    /\ dataset = Absent
    /\ files = [f \in {DatasetFile} |-> NoGml]
    /\ model_name = "qwen2.5-7b"
    /\ platform = "SiliconFlow"
    /\ llm_model = Absent
    /\ social_world = Absent
    /\ memory_units = <<>>
    /\ mem_serial = 0
    /\ inflight = <<>>
    /\ builds = 0
    /\ last = NoResult

NextCache ==
    \E traj_id \in {"1", "2"} : \E script \in Scripts :
        predict(CityName, Some("u1"), Some(traj_id), script)

SpecCache == InitCache /\ [][NextCache]_vars

-----------------------------------------------------------------------------
(* SpatialWorld on its own: constructed over the address lists of one       *)
(* trajectory, with a reasoning capability that answers or raises on each   *)
(* call.  An address is <<admin, subdistrict, poi, street>>.                 *)

max_history == 50

AddrPool ==
    {<<"Pudong", "Lujiazui", "Home", "Century Avenue">>,
     <<"Pudong", "Lujiazui", "Office Tower", "Yincheng Road">>,
     <<"Huangpu", "Bund", "Restaurant Plaza", "Dongyuan Road">>}

\* traj_pos = historical + context, each address as [his[0], his[1], his[3], his[2]]
traj_pos(traj_seqs) ==
    LET n == Len(traj_seqs.historical_addr)
        his_addresses_len == IF n <= max_history THEN n ELSE max_history
        kept == LastN(traj_seqs.historical_addr, his_addresses_len) \o traj_seqs.context_addr
    IN  [i \in 1..Len(kept) |-> <<kept[i][1], kept[i][2], kept[i][4], kept[i][3]>>]

\* a build that stores None for a query that raised and goes on
build_inner_world_model_soft(subdistrict, poi, calls) ==
    [outcome |-> "returned", exc |-> "",
     queries |-> <<[about |-> "subdistrict", visited |-> subdistrict],
                   [about |-> "poi", visited |-> poi]>>,
     world_model |-> Some([subdistrict |-> IF calls[1] = "ok" THEN <<"answer", 1>> ELSE None,
                           poi |-> IF calls[2] = "ok" THEN <<"answer", 2>> ELSE None])]

\* build_inner_world_model: world_info["subdistrict"] = get_response(...), then
\* world_info["poi"] = get_response(...); calls[k] is what the k-th call does
build_inner_world_model(subdistrict, poi, calls) ==
    IF calls[1] = "raise"
    THEN [outcome |-> "raised", exc |-> "RetryError",
          queries |-> <<[about |-> "subdistrict", visited |-> subdistrict]>>,
          world_model |-> Absent]
    ELSE IF calls[2] = "raise"
    THEN [outcome |-> "raised", exc |-> "RetryError",
          queries |-> <<[about |-> "subdistrict", visited |-> subdistrict],
                        [about |-> "poi", visited |-> poi]>>,
          world_model |-> Absent]
    ELSE [outcome |-> "returned", exc |-> "",
          queries |-> <<[about |-> "subdistrict", visited |-> subdistrict],
                        [about |-> "poi", visited |-> poi]>>,
          world_model |-> Some([subdistrict |-> <<"answer", 1>>, poi |-> <<"answer", 2>>])]

\* SpatialWorld(platform, model_name, city_name, traj_seqs, explore_num)
SpatialWorld(traj_seqs, calls) ==
    LET pos == traj_pos(traj_seqs)
        subdistrict == [i \in 1..Len(pos) |-> pos[i][2]]
        poi == [i \in 1..Len(pos) |-> <<pos[i][4], pos[i][3]>>]
    IN  build_inner_world_model(subdistrict, poi, calls)

InitSpatial ==
    /\ \E h \in ListsOf(AddrPool, MaxAddr) : \E c \in ListsOf(AddrPool, MaxAddr) :
            last = [op |-> "traj_seqs", historical_addr |-> h, context_addr |-> c]
    /\ test_data = <<>>
    /\ ground_data = <<>>
    /\ dataset = Absent
    /\ files = [f \in {DatasetFile} |-> NoGml]
    /\ model_name = "qwen2.5-7b"
    /\ platform = "SiliconFlow"
    /\ llm_model = Absent
    /\ social_world = Absent
    /\ memory_units = <<>>
    /\ mem_serial = 0
    /\ inflight = <<>>
    /\ builds = 0

\* spatial_world = SpatialWorld(..., traj_seqs=traj_data, explore_num=5)
NewSpatialWorld(calls) ==
    /\ last.op = "traj_seqs"
    /\ LET r == SpatialWorld(last, calls)
       IN  last' = [op |-> "SpatialWorld", calls |-> calls, outcome |-> r.outcome,
                    exc |-> r.exc, queries |-> r.queries, world_model |-> r.world_model]
    /\ UNCHANGED <<test_data, ground_data, dataset, inflight, model_name, platform, llm_model,
                   social_world, memory_units, mem_serial, files, builds>>

NextSpatial == \E calls \in CallOutcomes \X CallOutcomes : NewSpatialWorld(calls)

SpecSpatial == InitSpatial /\ [][NextSpatial]_vars

-----------------------------------------------------------------------------
(* Memory constructed with several values of memory_lens: 0 is the          *)
(* unbounded-history mode, the others are below and above the lengths of    *)
(* the historical lists.                                                    *)

LensValues == {0, 1, 2, MemoryLens}

InitLens ==
    /\ \E ks \in ListsOf(HistoryPool, MaxLensHistory) : \E cs \in ListsOf(ContextPool, MaxContext) :
            test_data = <<[uid |-> "u1",
                           trajs |-> <<[tid |-> "1", context_stays |-> cs,
                                        historical_stays_long |-> ks]>>]>>
    /\ ground_data = <<>>
    /\ dataset = Absent
    /\ files = [f \in {DatasetFile} |-> NoGml]
    /\ model_name = "qwen2.5-7b"
    /\ platform = "SiliconFlow"
    /\ llm_model = Absent
    /\ social_world = Absent
    /\ memory_units = <<>>
    /\ mem_serial = 0
    /\ inflight = <<>>
    /\ builds = 0
    /\ last = NoResult

\* Memory(know_stays, context_stays, memory_lens); the constructor ends with
\* write_memory
NewMemoryLens(memory_lens) ==
    LET traj == test_data[1].trajs[1]
        mem == Memory(traj.historical_stays_long, traj.context_stays, memory_lens)
    IN  /\ ~HasMemory(memory_units, "u1")
        /\ memory_units' = memory_units_after(memory_units, "u1",
                                               [id |-> mem_serial + 1, m |-> mem])
        /\ mem_serial' = mem_serial + 1
        /\ last' = [op |-> "Memory", memory_lens |-> memory_lens,
                    long_term_memory |-> long_term_memory(mem.known_stays),
                    short_term_memory |-> short_term_memory(mem.context_stays)]
        /\ UNCHANGED <<test_data, ground_data, dataset, inflight, model_name, platform, llm_model,
                       social_world, files, builds>>

NextLens == \E memory_lens \in LensValues : NewMemoryLens(memory_lens)

SpecLens == InitLens /\ [][NextLens]_vars

-----------------------------------------------------------------------------
(* The user profile of a Memory whose historical stays carry the hour as an *)
(* integer or as a clock label, and categories inside and outside the       *)
(* clusters.                                                                *)

ProfileHours ==
    {PyInt(17), PyInt(22), PyInt(9), <<"str", "5 PM">>, <<"str", "9 AM">>,
     <<"str", "11 PM">>, <<"str", "3 PM">>}

ProfileCats ==
    {"Bus Station", "Park", "Food & Drink Shop", "Clothing Store", "Gym / Fitness Center",
     "Coffee Shop", "Office"}

ProfilePool == {Stay(h, "Monday", c, 1) : h \in ProfileHours, c \in ProfileCats}

InitProfile ==
    /\ \E ks \in ListsOf(ProfilePool, MaxProfileStays) :
            test_data = <<[uid |-> "u1",
                           trajs |-> <<[tid |-> "1", context_stays |-> <<>>,
                                        historical_stays_long |-> ks]>>]>>
    /\ ground_data = <<>>
    /\ dataset = Absent
    /\ files = [f \in {DatasetFile} |-> NoGml]
    /\ model_name = "qwen2.5-7b"
    /\ platform = "SiliconFlow"
    /\ llm_model = Absent
    /\ social_world = Absent
    /\ memory_units = <<>>
    /\ mem_serial = 0
    /\ inflight = <<>>
    /\ builds = 0
    /\ last = NoResult

\* Memory.user_profile_generation(long_term_memory) of the Memory written for
\* the historical stays
UserProfileGeneration ==
    LET traj == test_data[1].trajs[1]
        mem == Memory(traj.historical_stays_long, traj.context_stays, MemoryLens)
        long_mem == long_term_memory(mem.known_stays)
    IN  /\ last.op = "init"
        /\ last' = [op |-> "user_profile_generation", long_mem |-> long_mem,
                    profile |-> user_profile_generation(long_mem)]
        /\ UNCHANGED <<test_data, ground_data, dataset, inflight, model_name, platform, llm_model,
                       social_world, memory_units, mem_serial, files, builds>>

NextProfile == UserProfileGeneration

SpecProfile == InitProfile /\ [][NextProfile]_vars

-----------------------------------------------------------------------------
(* The response parser on texts.  A text is a sequence of segments:         *)
(*   <<"noise">>            words without braces, brackets, "prediction"    *)
(*                          or "reason"                                     *)
(*   <<"key", head, tail>>  a keyword written head + tail, as "P" +         *)
(*                          "rediction:" or "R" + "EASON:"                  *)
(*   <<"hex", w>>           the word w of characters 0-9a-f                 *)
(*   <<"arr", items>>       a bracketed JSON list                           *)
(*   <<"obj", p, r>>        a JSON object with prediction p and reason r    *)
(* A text holds at most one object and no stray brace.                      *)

SpecId == "abcdef0123456789abcdef1"
LongId == "abcdef0123456789abcdef12"

PredictionWord == <<"key", "P", "rediction">>
ReasonWord == <<"key", "R", "eason">>

\* the lists [1, "2"], ["a"] and [Infinity]
Words ==
    {<<"noise">>, PredictionWord, ReasonWord, <<"hex", SpecId>>, <<"hex", LongId>>,
     <<"arr", <<<<"int", 1>>, <<"numstr", 2>>>>>>, <<"arr", <<<<"str", "a">>>>>>,
     <<"arr", <<<<"inf">>>>>>}

\* the prediction field: missing, "", [], an id, the integer 5, the list [1, 2]
PredictionValues ==
    {<<"absent">>, <<"str", "">>, <<"list", <<>>>>, <<"str", SpecId>>, <<"int", 5>>,
     <<"list", <<<<"int", 1>>, <<"int", 2>>>>>>}

ReasonValues == {Absent, Some("x")}

Objects == {<<"obj", pv, rv>> : pv \in PredictionValues, rv \in ReasonValues}

InsertAt(t, k, seg) == SubSeq(t, 1, k - 1) \o <<seg>> \o SubSeq(t, k, Len(t))

TextsOfLen(n) ==
    [1..n -> Words] \cup
    (IF n = 0 THEN {}
     ELSE {InsertAt(t, k, o) : t \in [1..(n - 1) -> Words], k \in 1..n, o \in Objects})

Texts == UNION {TextsOfLen(n) : n \in 0..MaxSegments}

FirstOf(text, tag) ==
    IF \E i \in 1..Len(text) : text[i][1] = tag
    THEN CHOOSE i \in 1..Len(text) :
            text[i][1] = tag /\ \A j \in 1..(i - 1) : text[j][1] # tag
    ELSE 0

LastOf(text, tag) ==
    IF \E i \in 1..Len(text) : text[i][1] = tag
    THEN CHOOSE i \in 1..Len(text) :
            text[i][1] = tag /\ \A j \in (i + 1)..Len(text) : text[j][1] # tag
    ELSE 0

\* full_text[full_text.find(open):full_text.rfind(close) + 1] for the
\* delimiters of the segments tagged tag; empty when there is none ([-1:0])
slice_between(text, tag) ==
    IF FirstOf(text, tag) = 0 THEN <<>>
    ELSE SubSeq(text, FirstOf(text, tag), LastOf(text, tag))

\* json.loads: one object or one list and nothing else, or JSONDecodeError
json_loads(str) ==
    IF Len(str) = 1 /\ str[1][1] \in {"obj", "arr"}
    THEN [ok |-> TRUE, value |-> str[1]]
    ELSE [ok |-> FALSE, value |-> <<"noise">>]

\* len(prediction): TypeError for None and for an integer
py_len(v) ==
    IF v[1] \in {"str", "list"} THEN [ok |-> TRUE, n |-> Len(v[2])]
    ELSE [ok |-> FALSE, n |-> 0]

\* int(item): a string of digits converts, any other string is a ValueError,
\* the float infinity (Infinity, 1e999) is an OverflowError
to_int(item) ==
    IF item[1] \in {"int", "numstr"}
    THEN [ok |-> TRUE, exc |-> "", value |-> <<"int", item[2]>>]
    ELSE [ok |-> FALSE, exc |-> IF item[1] = "inf" THEN "OverflowError" ELSE "ValueError",
          value |-> item]

\* the exception of [int(item) for item in prediction]: that of the first item
\* that does not convert, "" when all convert
comprehension_exc(items) ==
    IF \A i \in 1..Len(items) : to_int(items[i]).ok THEN ""
    ELSE to_int(items[CHOOSE i \in 1..Len(items) :
                        ~to_int(items[i]).ok /\ \A j \in 1..(i - 1) : to_int(items[j]).ok]).exc

\* prediction = json.loads(prediction); [int(item) for item in prediction]:
\* when an item does not convert the loaded list is kept as it is
loaded_list(items) ==
    IF \A i \in 1..Len(items) : to_int(items[i]).ok
    THEN [i \in 1..Len(items) |-> to_int(items[i]).value]
    ELSE items

\* the first word of the text that the pattern [heads]tail matches, 0 if none
FirstKey(text, heads, tail) ==
    LET hit(i) == text[i][1] = "key" /\ text[i][2] \in heads /\ text[i][3] = tail
    IN  IF \E i \in 1..Len(text) : hit(i)
        THEN CHOOSE i \in 1..Len(text) : hit(i) /\ \A j \in 1..(i - 1) : ~hit(j)
        ELSE 0

\* re.search('[Pp]rediction(.*?)[Rr]eason'): the segments between the first
\* [Pp]rediction and the first [Rr]eason after it
between_words(text) ==
    LET i == FirstKey(text, {"P", "p"}, "rediction")
        after == SubSeq(text, i + 1, Len(text))
        j == FirstKey(after, {"R", "r"}, "eason")
    IN  IF i = 0 \/ j = 0 THEN [ok |-> FALSE, group |-> <<>>]
        ELSE [ok |-> TRUE, group |-> SubSeq(after, 1, j - 1)]

\* match_prediction(text, "prediction"): the words of exactly 24 characters
\* 0-9a-f inside the match, [] without a match
match_prediction(text) ==
    LET m == between_words(text)
        ids == SelectSeq(m.group, LAMBDA w : w[1] = "hex" /\ Len(w[2]) = HexIdLen)
    IN  IF m.ok THEN [i \in 1..Len(ids) |-> <<"str", ids[i][2]>>] ELSE <<>>

\* raw is output_json.get('raw_response'): Absent when the key is not set
Returned(raw, prediction, reason) ==
    [outcome |-> "returned", exc |-> "", raw_response |-> raw,
     prediction |-> prediction, reason |-> reason]

Raised(exc) ==
    [outcome |-> "raised", exc |-> exc, raw_response |-> Absent,
     prediction |-> None, reason |-> None]

\* extract_json(full_text, "prediction") on a text, or on None
extract_json_text(full_text) ==
    IF full_text = Absent
    THEN Returned(Some(<<>>), <<"str", "">>, <<"str", "">>)
    ELSE
    LET text == full_text[1]
        braces == slice_between(text, "obj")
        json_str == IF Len(braces) = 0 THEN text ELSE braces
        loaded == json_loads(json_str)
        brackets == slice_between(text, "arr")
        reloaded == json_loads(brackets)
    IN  IF loaded.ok /\ loaded.value[1] = "arr"
        THEN \* list.get: AttributeError; the handler reads the unassigned prediction
             Raised("UnboundLocalError")
        ELSE IF loaded.ok
        THEN LET pv == loaded.value[2]
                 rv == loaded.value[3]
                 prediction == IF pv = <<"absent">> THEN None ELSE pv
                 reason == IF rv = Absent THEN None ELSE <<"str", rv[1]>>
             IN  IF ~py_len(pv).ok
                 THEN \* len() raises TypeError: reason = f"Exception:{e}"
                      Returned(Some(text), prediction, <<"Exception", "TypeError">>)
                 ELSE IF py_len(pv).n = 0
                 THEN \* match_prediction(output_json): re.search on a dict
                      Returned(Some(text), prediction, <<"Exception", "TypeError">>)
                 ELSE Returned(Absent, prediction, reason)
        ELSE \* json.JSONDecodeError
             IF Len(brackets) > 0
             THEN IF reloaded.ok
                  THEN IF comprehension_exc(reloaded.value[2]) = "OverflowError"
                       THEN \* not among (JSONDecodeError, ValueError, TypeError)
                            Raised("OverflowError")
                       ELSE Returned(Some(text), <<"list", loaded_list(reloaded.value[2])>>,
                                     <<"str", "">>)
                  ELSE Returned(Some(text), <<"text", brackets>>, <<"str", "">>)
             ELSE Returned(Some(text), <<"list", match_prediction(text)>>, <<"str", "">>)

InitParser ==
    /\ \E pre_text \in {Absent} \cup {Some(t) : t \in Texts} :
            last = [op |-> "get_response", pre_text |-> pre_text]
    /\ test_data = <<>>
    /\ ground_data = <<>>
    /\ dataset = Absent
    /\ files = [f \in {DatasetFile} |-> NoGml]
    /\ model_name = "qwen2.5-7b"
    /\ platform = "SiliconFlow"
    /\ llm_model = Absent
    /\ social_world = Absent
    /\ memory_units = <<>>
    /\ mem_serial = 0
    /\ inflight = <<>>
    /\ builds = 0

\* output_json, prediction, reason = extract_json(pre_text, prediction_key="prediction")
ExtractJson ==
    /\ last.op = "get_response"
    /\ LET r == extract_json_text(last.pre_text)
       IN  last' = [op |-> "extract_json", full_text |-> last.pre_text,
                    outcome |-> r.outcome, exc |-> r.exc, raw_response |-> r.raw_response,
                    prediction |-> r.prediction, reason |-> r.reason]
    /\ UNCHANGED <<test_data, ground_data, dataset, inflight, model_name, platform, llm_model,
                   social_world, memory_units, mem_serial, files, builds>>

NextParser == ExtractJson

SpecParser == InitParser /\ [][NextParser]_vars

-----------------------------------------------------------------------------
(* match_prediction on its own, over texts in which the two keywords occur  *)
(* in lower case, capitalised and in upper case.                            *)

OtherId == "0123456789abcdef01234567"

MatchWords ==
    {<<"noise">>, <<"hex", LongId>>, <<"hex", OtherId>>, <<"hex", SpecId>>,
     <<"key", "p", "rediction">>, <<"key", "P", "rediction">>, <<"key", "P", "REDICTION">>,
     <<"key", "r", "eason">>, <<"key", "R", "eason">>, <<"key", "R", "EASON">>}

MatchTexts == UNION {[1..n -> MatchWords] : n \in 0..MaxMatchWords}

InitMatch ==
    /\ \E text \in MatchTexts : last = [op |-> "text", text |-> text]
    /\ test_data = <<>>
    /\ ground_data = <<>>
    /\ dataset = Absent
    /\ files = [f \in {DatasetFile} |-> NoGml]
    /\ model_name = "qwen2.5-7b"
    /\ platform = "SiliconFlow"
    /\ llm_model = Absent
    /\ social_world = Absent
    /\ memory_units = <<>>
    /\ mem_serial = 0
    /\ inflight = <<>>
    /\ builds = 0

\* place_ids = match_prediction(text, "prediction")
MatchPrediction ==
    /\ last.op = "text"
    /\ last' = [op |-> "match_prediction", text |-> last.text,
                place_ids |-> match_prediction(last.text)]
    /\ UNCHANGED <<test_data, ground_data, dataset, inflight, model_name, platform, llm_model,
                   social_world, memory_units, mem_serial, files, builds>>

NextMatch == MatchPrediction

SpecMatch == InitMatch /\ [][NextMatch]_vars

-----------------------------------------------------------------------------
(* predict served to several callers at once.  DemoAgent holds no lock, so  *)
(* a call can be overtaken between a test of a cache and the assignment    *)
(* that fills it, and between the glob over the storage root and the       *)
(* write of the graph file.  Each call passes through the positions        *)
(*   check_world -> glob -> construct -> check_memory -> create_memory     *)
(*   -> return                                                             *)

\* self.memory_units[user_id] = mem
PutMemory(mu, user_id, mem) ==
    IF HasMemory(mu, user_id)
    THEN [i \in 1..Len(mu) |-> IF mu[i].uid = user_id
                                THEN [uid |-> user_id, mem |-> mem] ELSE mu[i]]
    ELSE Append(mu, [uid |-> user_id, mem |-> mem])

At(i, pc) == i \in 1..Len(inflight) /\ inflight[i].pc = pc

Move(i, r) == inflight' = [inflight EXCEPT ![i] = r]

InitServe ==
    /\ dataset = Some(LoadedTestData)
    /\ test_data = LoadedTestData
    /\ ground_data = LoadedGroundData
    /\ files \in RootFiles
    /\ model_name = "qwen2.5-7b"
    /\ platform = "SiliconFlow"
    /\ llm_model = Absent
    /\ social_world = Absent
    /\ memory_units = <<>>
    /\ mem_serial = 0
    /\ builds = 0
    /\ inflight = <<>>
    /\ last = NoResult

\* a predict call arrives and selects its user and trajectory
StartPredict(user_id, traj_id) ==
    /\ Len(inflight) < MaxRequests
    /\ HasUser(test_data, user_id) /\ HasTraj(UserTrajs(test_data, user_id), traj_id)
    /\ inflight' = Append(inflight, [user_id |-> user_id, traj_id |-> traj_id,
                                      pc |-> "check_world", need_world |-> FALSE,
                                      matched |-> FALSE, need_mem |-> FALSE])
    /\ last' = [op |-> "serve", step |-> "StartPredict"]
    /\ UNCHANGED <<test_data, ground_data, dataset, model_name, platform, llm_model,
                   social_world, memory_units, mem_serial, files, builds>>

\* if self.llm_model is None: ...; if self.social_world is None and self.dataset is not None:
CheckWorld(i) ==
    /\ At(i, "check_world")
    /\ LET need == social_world = Absent /\ dataset # Absent
       IN  Move(i, [inflight[i] EXCEPT !.need_world = need,
                                       !.pc = IF need THEN "glob" ELSE "check_memory"])
    /\ llm_model' = IF llm_model = Absent THEN Some(<<model_name, platform>>) ELSE llm_model
    /\ last' = [op |-> "serve", step |-> "CheckWorld"]
    /\ UNCHANGED <<test_data, ground_data, dataset, model_name, platform,
                   social_world, memory_units, mem_serial, files, builds>>

\* get_processed_graph: for file in glob.glob(...): if self.save_name in file
Glob(i) ==
    /\ At(i, "glob")
    /\ Move(i, [inflight[i] EXCEPT
                    !.matched = \E file \in DOMAIN files : IsSubstring(save_name(CityName), file),
                    !.pc = "construct"])
    /\ last' = [op |-> "serve", step |-> "Glob"]
    /\ UNCHANGED <<test_data, ground_data, dataset, model_name, platform, llm_model,
                   social_world, memory_units, mem_serial, files, builds>>

\* the rest of SocialWorld(...): read the graph file, or build the graph and
\* write it; self.social_world is assigned unless the constructor raised
Construct(i) ==
    /\ At(i, "construct")
    /\ Move(i, [inflight[i] EXCEPT !.pc = "check_memory"])
    /\ LET path == graph_file_path(CityName)
           b == build_graph(dataset[1])
           world(g) == [city_name |-> CityName, khop |-> 1,
                        max_neighbors |-> MaxNeighbors, graph |-> g]
       IN  IF inflight[i].matched
           THEN /\ social_world' = IF path \in DOMAIN files
                                    THEN Some(world(read_gml(files[path])))
                                    ELSE social_world
                /\ UNCHANGED <<files, builds>>
           ELSE /\ builds < MaxBuilds
                /\ builds' = builds + 1
                /\ files' = IF b.ok
                            THEN [f \in DOMAIN files \cup {path} |->
                                    IF f = path THEN write_gml(b.graph) ELSE files[f]]
                            ELSE files
                /\ social_world' = IF b.ok THEN Some(world(b.graph)) ELSE social_world
    /\ last' = [op |-> "serve", step |-> "Construct"]
    /\ UNCHANGED <<test_data, ground_data, dataset, model_name, platform, llm_model,
                   memory_units, mem_serial>>

\* if user_id not in self.memory_units:
CheckMemory(i) ==
    /\ At(i, "check_memory")
    /\ LET need == ~HasMemory(memory_units, inflight[i].user_id)
       IN  Move(i, [inflight[i] EXCEPT !.need_mem = need,
                                       !.pc = IF need THEN "create_memory" ELSE "return"])
    /\ last' = [op |-> "serve", step |-> "CheckMemory"]
    /\ UNCHANGED <<test_data, ground_data, dataset, model_name, platform, llm_model,
                   social_world, memory_units, mem_serial, files, builds>>

\* self.memory_units[user_id] = Memory(know_stays, context_stays, memory_lens=15)
CreateMemory(i) ==
    /\ At(i, "create_memory")
    /\ mem_serial < MaxMem
    /\ LET trajs == UserTrajs(test_data, inflight[i].user_id)
           mem == Memory(trajs[1].historical_stays_long,
                         TrajOf(trajs, inflight[i].traj_id).context_stays, MemoryLens)
       IN  memory_units' = PutMemory(memory_units, inflight[i].user_id,
                                     [id |-> mem_serial + 1, m |-> mem])
    /\ mem_serial' = mem_serial + 1
    /\ Move(i, [inflight[i] EXCEPT !.pc = "return"])
    /\ last' = [op |-> "serve", step |-> "CreateMemory"]
    /\ UNCHANGED <<test_data, ground_data, dataset, model_name, platform, llm_model,
                   social_world, files, builds>>

\* the call returns its result
Return(i) ==
    /\ At(i, "return")
    /\ inflight' = SubSeq(inflight, 1, i - 1) \o SubSeq(inflight, i + 1, Len(inflight))
    /\ last' = [op |-> "serve", step |-> "Return"]
    /\ UNCHANGED <<test_data, ground_data, dataset, model_name, platform, llm_model,
                   social_world, memory_units, mem_serial, files, builds>>

NextServe ==
    \/ StartPredict("u1", "1")
    \/ \E i \in 1..MaxRequests : CheckWorld(i)
    \/ \E i \in 1..MaxRequests : Glob(i)
    \/ \E i \in 1..MaxRequests : Construct(i)
    \/ \E i \in 1..MaxRequests : CheckMemory(i)
    \/ \E i \in 1..MaxRequests : CreateMemory(i)
    \/ \E i \in 1..MaxRequests : Return(i)

SpecServe == InitServe /\ [][NextServe]_vars

-----------------------------------------------------------------------------
(* Properties of the graph engine *)

IdSet(result) == {result[i][1] : i \in 1..Len(result)}

World == social_world[1]

\* C6: retrival_neighbors never returns a venue of the exclude list, for every
\* graph, source venue, exclude list and hop bound; this covers the call made
\* by predict, whose exclude list holds the source venue itself.
C6_NeverReturnsExcluded ==
    last.op = "retrival_neighbors" =>
        IdSet(last.result) \cap last.context_trajs = {}

\* a query whose exclude list removed a direct neighbour and left another one
C6_Witness ==
    /\ last.op = "retrival_neighbors"
    /\ Range(neighbors(World.graph, last.venue_id)) \cap last.context_trajs # {}
    /\ Len(last.result) > 0

\* C7: on every built graph, the node ids returned with khop = 1 are among
\* those returned with khop = 2 for the same source and exclude list, and the
\* hop distances returned with khop = 2 lie in 1..2 and never decrease.
C7_OneHopWithinTwoHop ==
    (last.op = "retrival_neighbors" /\ last.venue_id \in Range(World.graph.nodes)) =>
        LET G == World.graph
            r1 == retrival_neighbors(G, 1, last.venue_id, last.context_trajs)
            r2 == retrival_neighbors(G, 2, last.venue_id, last.context_trajs)
        IN  /\ last.result = (IF World.khop = 1 THEN r1 ELSE r2)
            /\ IdSet(r1) \subseteq IdSet(r2)
            /\ \A i \in 1..Len(r2) : 1 <= r2[i][2] /\ r2[i][2] <= 2
            /\ \A i \in 1..(Len(r2) - 1) : r2[i][2] <= r2[i+1][2]

UserOrders(seq) ==
    {[i \in 1..Len(seq) |-> seq[p[i]]] :
        p \in {q \in [1..Len(seq) -> 1..Len(seq)] :
                  \A i, j \in 1..Len(seq) : q[i] = q[j] => i = j}}

\* the edges of a graph with their weights, whatever end is listed first
EdgeSet(G) == {<<{G.edges[i][1], G.edges[i][2]}, G.edges[i][3]>> : i \in 1..Len(G.edges)}

JustBuilt == last.op = "SocialWorld" /\ last.ok /\ last.built

\* C8: build_graph is order-independent: processing the users in any other
\* order yields the same edges with the same weights.
C8_BuildOrderIndependent ==
    JustBuilt =>
        \A ds \in UserOrders(dataset[1]) :
            /\ build_graph(ds).ok
            /\ EdgeSet(build_graph(ds).graph) = EdgeSet(World.graph)

\* number of times dst immediately follows src in the users' first
\* historical stay lists
Transitions(traj_dataset, src, dst) ==
    LET es == edges_list(traj_dataset)
    IN  Cardinality({i \in 1..Len(es) : es[i] = <<src, dst>>})

GraphIds(G) == Range(G.nodes)

\* C9: the built graph is directed with transition counts as weights: dst is a
\* neighbour of src exactly when dst was observed immediately after src, the
\* weight of src->dst is the number of such observations, and each pair has
\* at most one edge.
C9_DirectedTransitionCounts ==
    JustBuilt =>
        LET G == World.graph
        IN  /\ \A src, dst \in {PyInt(v) : v \in Venues} :
                 /\ (src \in GraphIds(G) /\ dst \in Range(neighbors(G, src)))
                        <=> Transitions(dataset[1], src, dst) >= 1
                 /\ dst \in IdSet(retrival_neighbors(G, 1, src, {}))
                        => Transitions(dataset[1], src, dst) >= 1
                 /\ (src \in GraphIds(G) /\ dst \in Range(neighbors(G, src)))
                        => EdgeWeight(G, src, dst) = Transitions(dataset[1], src, dst)
            /\ \A i, j \in 1..Len(G.edges) :
                 SameEdge(G.edges[i], G.edges[j][1], G.edges[j][2]) => i = j

\* C10: constructing SocialWorld loads the persisted graph when the city's
\* file exists and otherwise builds the graph and saves it to that file, so
\* the graph is built at most once and other cities' files play no part.
C10_LoadElseBuildOnce ==
    /\ builds <= 1
    /\ last.op = "SocialWorld" =>
          IF graph_file_path(CityName) \in last.root
          THEN last.ok /\ ~last.built
          ELSE last.ok /\ last.built /\ graph_file_path(CityName) \in DOMAIN files

-----------------------------------------------------------------------------
(* Properties of the orchestrator *)

IsPredict(l) == l.op = "predict"

\* the request named a user and a trajectory of the loaded data and the
\* agent's city: nothing was substituted
KnownRequest(l) ==
    /\ l.city_name = CityName
    /\ l.user_req = Some(l.user_id)
    /\ l.traj_req = Some(l.traj_id)

\* the request named a user or a trajectory that is not in the loaded data, or
\* another city
UnknownRequest(l) ==
    \/ l.city_name # CityName
    \/ l.user_req # Absent /\ l.user_req # Some(l.user_id)
    \/ l.traj_req # Absent /\ l.traj_req # Some(l.traj_id)

AllCalls(l, what) == \A i \in 1..Len(l.calls) : l.calls[i] = what

\* C1: when every call to the reasoning capability raises, predict for an
\* existing user and trajectory returns a result whose venue id is the
\* trajectory's ground truth, and does not raise.
C1_PermanentFailureReturnsGroundTruth ==
    (IsPredict(last) /\ KnownRequest(last) /\ AllCalls(last, "raise")) =>
        /\ last.outcome = "returned"
        /\ last.venue_id = GroundStayOr(ground_data, last.user_id, last.traj_id, Unknown)

\* C2: predict for a user or trajectory that is not loaded, or for another
\* city, raises at once: nothing is substituted, the reasoning capability is
\* not called and no cache changes.
C2_UnknownRequestRaises ==
    [][(IsPredict(last') /\ UnknownRequest(last')) =>
            /\ last'.outcome = "raised"
            /\ last'.calls = <<>>
            /\ UNCHANGED <<llm_model, social_world, memory_units, files>>]_vars

\* C3: for every existing user and trajectory, custom ones included, predict
\* returns a result whenever the reasoning capability answers every query.
C3_AnsweredRequestReturns ==
    (IsPredict(last) /\ KnownRequest(last) /\ AllCalls(last, "ok")) =>
        last.outcome = "returned"

FinalCallFailed(l) ==
    /\ IsPredict(l)
    /\ Len(l.calls) = 3 /\ l.calls[1] = "ok" /\ l.calls[2] = "ok"
    /\ l.final_exc # ""

\* C4: when the spatial queries succeed and the final call or the parsing of
\* its answer raises, predict returns a result whose venue id is the stored
\* ground_stay ("Unknown" when none is stored) and whose explanation is
\* "Prediction failed due to: " followed by the first 100 characters of the
\* failure message, or by all of it when it is shorter.
C4_FinalFailureFallsBack ==
    FinalCallFailed(last) =>
        /\ last.outcome = "returned"
        /\ last.venue_id = GroundStayOr(ground_data, last.user_id, last.traj_id, Unknown)
        /\ last.explanation[1] = "Prediction failed due to: "
        /\ last.explanation[2] <= ExplainLimit
        /\ last.explanation[2] <= last.msg_len
        /\ (last.msg_len >= ExplainLimit => last.explanation[2] = ExplainLimit)
        /\ (last.msg_len <= ExplainLimit => last.explanation[2] = last.msg_len)

\* the final call raised with a message longer than the limit
C4_Witness ==
    /\ FinalCallFailed(last)
    /\ last.final_exc = "RetryError"
    /\ last.msg_len > ExplainLimit
    /\ last.outcome = "returned"

\* C5: one Memory instance is created per user, on the first prediction that
\* reaches memory creation, and the cached instance is never replaced or
\* rebuilt afterwards.
C5_MemoryCreatedOnce ==
    /\ [](/\ \A i, j \in 1..Len(memory_units) :
                memory_units[i].uid = memory_units[j].uid => i = j
          /\ mem_serial = Len(memory_units)
          /\ \A i \in 1..Len(memory_units) : memory_units[i].mem.id = i)
    /\ [][/\ Len(memory_units') >= Len(memory_units)
          /\ \A i \in 1..Len(memory_units) : memory_units'[i] = memory_units[i]]_vars

\* a prediction on a custom trajectory was served from the Memory that an
\* earlier prediction built from another trajectory's context
C5_Witness ==
    /\ IsPredict(last) /\ last.outcome = "returned"
    /\ last.traj_id = "custom_1"
    /\ HasMemory(memory_units, last.user_id)
    /\ MemoryOf(memory_units, last.user_id).m.context_stays
         # TrajOf(UserTrajs(test_data, last.user_id), "custom_1").context_stays

-----------------------------------------------------------------------------
(* Properties: fail-soft queries, memory contents, parser stages *)

\* C11: retrival_neighbors returns a list and never raises, for every venue id
\* (None and ids that are not nodes included) and every exclude list; the
\* list is empty when the source is not a node of the graph.
C11_RetrievalFailSoft ==
    last.op = "retrival_neighbors" =>
        /\ last.outcome = "returned"
        /\ last.result \in Seq(QueryIds \X {1, 2})
        /\ (last.venue_id \notin Range(World.graph.nodes) => last.result = <<>>)

\* a two-hop world was asked for None, which is not a node
C11_Witness ==
    /\ last.op = "retrival_neighbors"
    /\ last.venue_id \notin Range(World.graph.nodes)
    /\ World.khop = 2
    /\ last.venue_id = None
    /\ last.result = <<>>

TheHistory == test_data[1].trajs[1].historical_stays_long
TheContext == test_data[1].trajs[1].context_stays

\* C12: for a nonempty context stay list, once Memory is written
\* short_term_memory['last_visit'] holds the time, day, location and venue id
\* of the last element of the list, whatever the order of the timestamps and
\* whatever the historical stays.
C12_LastVisitIsLastContextStay ==
    (last.op = "Memory" /\ Len(TheContext) > 0) =>
        LET e == TheContext[Len(TheContext)]
        IN  last.short_term_memory.last_visit =
                Some([time |-> e.hour, day |-> e.day, location |-> e.cat,
                      venue_id |-> e.venue])

\* two context stays, the later one earlier in the day and the week than the
\* first, over a nonempty history
C12_Witness ==
    /\ last.op = "Memory"
    /\ Len(TheContext) = 2
    /\ TheContext[1] # TheContext[2]
    /\ TheContext[2].hour < TheContext[1].hour
    /\ Len(TheHistory) > 0
    /\ last.short_term_memory.last_visit[1].time = TheContext[2].hour

HoursOf(stays, h) == {i \in 1..Len(stays) : stays[i].hour = h}

\* C15: for a user whose historical list has 6 stays, hour 9 exactly twice and
\* hour 18 once, the historical_info of read_memory cites hour 9 with count 2
\* among the top frequent hours.
C15_ReadoutCitesHourNine ==
    (/\ last.op = "read_memory" /\ last.outcome = "returned"
     /\ Len(TheHistory) = 6
     /\ Cardinality(HoursOf(TheHistory, 9)) = 2
     /\ Cardinality(HoursOf(TheHistory, 18)) = 1) =>
        \E i \in 1..Len(last.info.historical_info) :
            last.info.historical_info[i] = <<9, 2>>

\* such a history where another hour occurs three times, so that hour 9 is
\* not the first of the top hours
C15_Witness ==
    /\ last.op = "read_memory" /\ last.outcome = "returned"
    /\ Len(TheHistory) = 6
    /\ Cardinality(HoursOf(TheHistory, 9)) = 2
    /\ Cardinality(HoursOf(TheHistory, 18)) = 1
    /\ Cardinality(HoursOf(TheHistory, 7)) = 3
    /\ last.info.historical_info[2] = <<9, 2>>

\* the object of a text that holds one
ObjectOf(text) == text[FirstOf(text, "obj")]

\* C13: for a text made of brace-free noise around one JSON object whose
\* prediction field is a non-empty string, a non-empty list or an integer and
\* which has a reason field, extract_json returns that prediction unchanged
\* together with the sibling reason.
C13_ObjectPredictionAndReason ==
    (/\ last.op = "extract_json"
     /\ last.full_text # Absent
     /\ FirstOf(last.full_text[1], "obj") # 0
     /\ ObjectOf(last.full_text[1])[2] \in {<<"str", SpecId>>, <<"int", 5>>,
                                            <<"list", <<<<"int", 1>>, <<"int", 2>>>>>>}
     /\ ObjectOf(last.full_text[1])[3] # Absent) =>
        /\ last.outcome = "returned"
        /\ last.prediction = ObjectOf(last.full_text[1])[2]
        /\ last.reason = <<"str", ObjectOf(last.full_text[1])[3][1]>>

\* C14: for the text  Prediction: abcdef0123456789abcdef1 Reason: because
\* extract_json returns the prediction ["abcdef0123456789abcdef1"] and the
\* reason "".
C14_PatternStageFindsId ==
    (/\ last.op = "extract_json"
     /\ last.full_text =
            Some(<<PredictionWord, <<"hex", SpecId>>, ReasonWord, <<"noise">>>>)) =>
        /\ last.outcome = "returned"
        /\ last.prediction = <<"list", <<<<"str", SpecId>>>>>>
        /\ last.reason = <<"str", "">>

-----------------------------------------------------------------------------
(* Properties: what predict constructs and what it reuses *)

PassedSelection(l) == IsPredict(l) /\ l.calls # <<>>

\* C16: the build-or-load of the graph is performed at most once per process:
\* once a predict has constructed SocialWorld, whether that succeeded or
\* failed, no later predict constructs it again; in particular the predict
\* that follows one which constructed it does not construct it.
C16_SocialWorldConstructedOnce ==
    [][(IsPredict(last) /\ last.did.social_world) =>
            ~(IsPredict(last') /\ last'.did.social_world)]_vars

C17_NoDuplicateUnderConcurrency ==
    /\ builds <= 1
    /\ mem_serial <= Len(memory_units)

\* C20: get_world_info collects at most max_neighbors entries over all hop
\* distances when more were retrieved, and emits one line per hop distance,
\* in increasing order of distance.
C20_CollectsAtMostCap ==
    (last.op = "get_world_info" /\ Len(last.retrieved) > World.max_neighbors) =>
        /\ Len(last.collected) <= World.max_neighbors
        /\ \A i, j \in 1..Len(last.lines) : i < j => last.lines[i][1] < last.lines[j][1]

-----------------------------------------------------------------------------
(* Properties: the later stages of the response parser *)

EmptyPredictions == {<<"str", "">>, <<"list", <<>>>>}

\* C21: when the response holds a JSON object whose prediction field is
\* present but empty ("" or []), extract_json applies the keyword pattern to
\* the extracted JSON substring and returns the captured list (here the empty
\* list: the object holds no id) as prediction, without an exception text in
\* reason.
C21_EmptyPredictionFallsThrough ==
    (/\ last.op = "extract_json"
     /\ last.full_text # Absent
     /\ FirstOf(last.full_text[1], "obj") # 0
     /\ ObjectOf(last.full_text[1])[2] \in EmptyPredictions) =>
        /\ last.outcome = "returned"
        /\ last.prediction = <<"list", <<>>>>
        /\ last.reason[1] # "Exception"

\* C22: extract_json never raises: for None and for every text, a bare JSON
\* list and objects without a prediction field included, it returns a triple.
C22_NeverRaises ==
    last.op = "extract_json" => last.outcome = "returned"

\* the list of a text whose bracketed part is one JSON list
BracketItems(text) == slice_between(text, "arr")[1][2]

\* C23: when the text is not valid JSON, the prediction is taken from the part
\* between the first '[' and the last ']': the integer list when that part
\* parses and every element converts, the loaded list when an element does
\* not convert, the part itself when it does not parse, and the result of the
\* keyword pattern over the whole text when there is no such part; reason is
\* "" and raw_response is the text.
C23_BracketStage ==
    (/\ last.op = "extract_json"
     /\ last.full_text # Absent
     /\ FirstOf(last.full_text[1], "obj") = 0
     /\ ~json_loads(last.full_text[1]).ok) =>
        LET text == last.full_text[1]
            part == slice_between(text, "arr")
        IN  /\ last.outcome = "returned"
            /\ last.reason = <<"str", "">>
            /\ last.raw_response = Some(text)
            /\ Len(part) = 0 => last.prediction = <<"list", match_prediction(text)>>
            /\ Len(part) > 1 => last.prediction = <<"text", part>>
            /\ Len(part) = 1 =>
                    IF \A i \in 1..Len(BracketItems(text)) : BracketItems(text)[i][1] \in {"int", "numstr"}
                    THEN last.prediction =
                            <<"list", [i \in 1..Len(BracketItems(text)) |->
                                            <<"int", BracketItems(text)[i][2]>>]>>
                    ELSE last.prediction = <<"list", BracketItems(text)>>

\* the first word of the text that is the keyword in any of its three cases
FirstKeyword(text, heads, tails) ==
    LET hit(i) == text[i][1] = "key" /\ text[i][2] \in heads /\ text[i][3] \in tails
    IN  IF \E i \in 1..Len(text) : hit(i)
        THEN CHOOSE i \in 1..Len(text) : hit(i) /\ \A j \in 1..(i - 1) : ~hit(j)
        ELSE 0

\* the 24-character hexadecimal words between the "prediction" keyword and the
\* next "reason" keyword, the keywords taken case-insensitively
TokensBetweenKeywords(text) ==
    LET i == FirstKeyword(text, {"P", "p"}, {"rediction", "REDICTION"})
        after == SubSeq(text, i + 1, Len(text))
        j == FirstKeyword(after, {"R", "r"}, {"eason", "EASON"})
        ids == SelectSeq(SubSeq(after, 1, j - 1), LAMBDA w : w[1] = "hex" /\ Len(w[2]) = 24)
    IN  IF i = 0 \/ j = 0 THEN <<>> ELSE [k \in 1..Len(ids) |-> <<"str", ids[k][2]>>]

\* C24: match_prediction finds the "prediction" keyword case-insensitively and
\* returns exactly the list, in order, of the 24-character hexadecimal tokens
\* between it and the next "reason" keyword; the list is empty when either
\* keyword is missing or no such token lies between them.
C24_KeywordCaseInsensitive ==
    last.op = "match_prediction" => last.place_ids = TokensBetweenKeywords(last.text)

-----------------------------------------------------------------------------
(* Properties: what Memory is derived from *)

\* the stays the long-term structures are claimed to be derived from
Window(know_stays, memory_lens) ==
    LET n == Len(know_stays)
        k == IF n <= memory_lens THEN n ELSE memory_lens
    IN  IF memory_lens = 0 THEN know_stays ELSE SubSeq(know_stays, n - k + 1, n)

CountOf(stays, F(_), v) == Cardinality({i \in 1..Len(stays) : F(stays[i]) = v})

HourField(e) == e.hour
CatField(e) == e.cat

\* rows are exactly the values of the field in stays, each with its count
CountsExactly(rows, stays, F(_)) ==
    /\ \A i \in 1..Len(rows) : rows[i][2] > 0 /\ rows[i][2] = CountOf(stays, F, rows[i][1])
    /\ \A i \in 1..Len(stays) : \E j \in 1..Len(rows) : rows[j][1] = F(stays[i])
    /\ \A i, j \in 1..Len(rows) : rows[i][1] = rows[j][1] => i = j

\* C25: the long-term structures are derived from exactly the last
\* min(len(know_stays), memory_lens) historical stays when memory_lens >= 1 and
\* from the whole historical list when memory_lens = 0; the short-term
\* structures are derived from the context stays alone.
C25_LongTermFromTrimmedHistory ==
    last.op = "Memory" =>
        /\ CountsExactly(last.long_term_memory.top_k_frequent_hours,
                         Window(TheHistory, last.memory_lens), HourField)
        /\ CountsExactly(last.long_term_memory.top_k_frequent_venues,
                         Window(TheHistory, last.memory_lens), CatField)
        /\ CountsExactly(last.short_term_memory.frequent_locations, TheContext, CatField)

\* a history longer than memory_lens whose dropped stays hold an hour that the
\* kept ones do not, beside a context that holds a category absent from the
\* kept stays
C25_Witness ==
    /\ last.op = "Memory"
    /\ last.memory_lens = 2
    /\ Len(TheHistory) = 4
    /\ Len(TheContext) = 2
    /\ \E i \in 1..2 : \A j \in 3..4 : TheHistory[i].hour # TheHistory[j].hour
    /\ \E i \in 1..2 : \A j \in 3..4 : TheContext[i].cat # TheHistory[j].cat
    /\ Len(last.long_term_memory.top_k_frequent_hours) = 1

\* the rule table: cluster k, whether it is a cluster of hours, and its phrase
Clusters ==
    <<[hours |-> TRUE, members |-> EVENING_HOURS, phrase |-> "enjoys evening activities"],
      [hours |-> TRUE, members |-> REGULAR_HOURS, phrase |-> "maintains a regular lifestyle"],
      [hours |-> TRUE, members |-> NIGHTLIFE_HOURS, phrase |-> "enjoys nightlife"],
      [hours |-> FALSE, members |-> COMMUTER_VENUES, phrase |-> "has a fixed commute"],
      [hours |-> FALSE, members |-> LEISURE_VENUES, phrase |-> "enjoys leisure activities"],
      [hours |-> FALSE, members |-> SHOPPING_VENUES,
       phrase |-> "frequently shops for clothes and cosmetics"],
      [hours |-> FALSE, members |-> HEALTH_VENUES,
       phrase |-> "is health conscious and regularly visits the gym"],
      [hours |-> FALSE, members |-> FOOD_VENUES,
       phrase |-> "enjoys trying different types of food and drinks"]>>

\* cluster k holds one of the top hours, or one of the top categories
Intersects(long_mem, k) ==
    IF Clusters[k].hours
    THEN \E i \in 1..Len(long_mem.top_k_frequent_hours) :
            long_mem.top_k_frequent_hours[i][1] \in Clusters[k].members
    ELSE \E i \in 1..Len(long_mem.top_k_frequent_venues) :
            long_mem.top_k_frequent_venues[i][1] \in Clusters[k].members

PositionsOf(phrases, phrase) == {i \in 1..Len(phrases) : phrases[i] = phrase}

ProfileReturned == last.op = "user_profile_generation" /\ last.profile.outcome = "returned"

\* C26: for the top hours and categories of every nonempty history, each
\* cluster that intersects them contributes its phrase exactly once, the
\* phrases come in the cluster order evening, regular, nightlife, commuter,
\* leisure, shopping, health, food, and "has diverse interests" appears if
\* and only if no cluster intersects.
C26_ProfileRuleTable ==
    ProfileReturned =>
        LET phrases == last.profile.phrases
            hit(k) == Intersects(last.long_mem, k)
        IN  /\ \A k \in 1..8 :
                    Cardinality(PositionsOf(phrases, Clusters[k].phrase)) = IF hit(k) THEN 1 ELSE 0
            /\ \A k, l \in 1..8 : (k < l /\ hit(k) /\ hit(l)) =>
                    \A i \in PositionsOf(phrases, Clusters[k].phrase) :
                        \A j \in PositionsOf(phrases, Clusters[l].phrase) : i < j
            /\ (PositionsOf(phrases, "has diverse interests") # {}) <=> (\A k \in 1..8 : ~hit(k))
            /\ Len(phrases) = Cardinality({k \in 1..8 : hit(k)}) + (IF \A k \in 1..8 : ~hit(k) THEN 1 ELSE 0)

\* a profile in which hour clusters and category clusters co-occur: evening,
\* regular, nightlife, leisure and food
C26_Witness ==
    /\ ProfileReturned
    /\ last.profile.phrases =
            <<"enjoys evening activities", "maintains a regular lifestyle", "enjoys nightlife",
              "enjoys leisure activities", "enjoys trying different types of food and drinks">>

HourPhrases ==
    {"enjoys evening activities", "maintains a regular lifestyle", "enjoys nightlife"}

IntegerHours(stays) ==
    \A i \in 1..Len(stays) : stays[i].hour[1] = "int" /\ stays[i].hour[2] \in 0..23

\* C30: when the hour of every stay is an integer in 0..23,
\* user_profile_generation emits none of the three hour-cluster phrases.
C30_IntegerHoursNeverMatch ==
    (ProfileReturned /\ IntegerHours(TheHistory)) =>
        \A i \in 1..Len(last.profile.phrases) : last.profile.phrases[i] \notin HourPhrases

\* a history at 17 and 22 o'clock, hours that the evening, regular and
\* nightlife clusters name as clock labels, with a category cluster reported
C30_Witness ==
    /\ ProfileReturned
    /\ IntegerHours(TheHistory)
    /\ Len(TheHistory) = 2
    /\ TheHistory[1].hour = PyInt(17)
    /\ TheHistory[2].hour = PyInt(22)
    /\ last.profile.phrases = <<"has a fixed commute">>

-----------------------------------------------------------------------------
(* Properties: the spatial queries *)

\* C27: SpatialWorld issues the subdistrict query before the POI query; when
\* the reasoning capability raises on either of them the failure leaves the
\* constructor and no world model is kept, and when the first query raises
\* the second is never issued.
C27_SpatialQueriesPropagate ==
    last.op = "SpatialWorld" =>
        /\ Len(last.queries) \in {1, 2}
        /\ last.queries[1].about = "subdistrict"
        /\ Len(last.queries) = 2 => last.queries[2].about = "poi"
        /\ (\E k \in 1..Len(last.queries) : last.calls[k] = "raise") =>
                (last.outcome = "raised" /\ last.world_model = Absent)
        /\ last.calls[1] = "raise" => Len(last.queries) = 1
        /\ last.calls = <<"ok", "ok">> => (last.outcome = "returned" /\ Len(last.queries) = 2)

\* the first query raised over a trajectory that has addresses, and the POI
\* query was not issued
C27_Witness ==
    /\ last.op = "SpatialWorld"
    /\ last.calls[1] = "raise"
    /\ last.outcome = "raised"
    /\ Len(last.queries) = 1
    /\ Len(last.queries[1].visited) = 2 * MaxAddr

-----------------------------------------------------------------------------
(* Properties: the caches after a failed predict *)

\* C28: a predict call that raises leaves memory_units as it was before the
\* call, so that a failed prediction for a user does not make a later predict
\* for the same user fail.
C28_FailedPredictKeepsCaches ==
    [][(IsPredict(last') /\ last'.outcome = "raised") => memory_units' = memory_units]_vars

-----------------------------------------------------------------------------
(* Properties: venues recorded by build_graph *)

\* the venues of the first historical stay list of every user of the dataset
RecordedVenues == Range(nodes_list(dataset[1]))

\* C29: build_graph completes for every dataset, and afterwards every venue
\* of any user's first historical stay list is a node of the graph; a venue
\* that takes part in no consecutive pair does not make the build fail.
C29_BuildCompletesWithAllVenues ==
    (last.op = "SocialWorld" /\ last.built) =>
        /\ last.ok
        /\ social_world # Absent
        /\ RecordedVenues \subseteq Range(social_world[1].graph.nodes)

====
